---- MODULE Spec2Model ----
(***************************************************************************)
(* Model of the interrupt-driven UART driver of Serial-JSON-Bridge         *)
(* (src/uart.c): the main-line entry points uart_transmit_buffer,          *)
(* uart_receive_buffer and uart_error_reset, interleaved statement by      *)
(* statement with the interrupt handler USART2_IRQHandler and with the     *)
(* USART2 peripheral (flags raised by the hardware).                       *)
(*                                                                         *)
(* The handler preempts the main line wherever interrupt delivery is       *)
(* enabled and runs to completion, so it is one action; each main-line     *)
(* statement outside a critical section is one action.  A volatile         *)
(* `*USART_CR1 |= bit` is a load followed by a store (Cortex-M0+ has no    *)
(* atomic read-modify-write), so it is two actions.                        *)
(*                                                                         *)
(* The second part models the JSON tokenizer (src/jsmn.c) as it is built   *)
(* here, without JSMN_STRICT and without JSMN_PARENT_LINKS: one action     *)
(* per case of the switch of jsmn_parse, taken on the character at         *)
(* parser.pos, and one for the scan that follows the loop.  The tokenizer  *)
(* and the driver share no state; each specification runs one of them and  *)
(* leaves the other in its initial state.                                  *)
(*                                                                         *)
(* The third part models the application (src/jsonprocess.c, src/main.c,   *)
(* src/delay.c): json_process_init tokenizes the embedded JSON string,     *)
(* then main calls json_process for ever; json_process runs statement by   *)
(* statement through its calls of uart_transmit_buffer, interleaved with   *)
(* USART2_IRQHandler and SysTick_Handler.                                  *)
(***************************************************************************)
EXTENDS Integers, Sequences, FiniteSets, TLC

(* ------------------------------------------------------------------ *)
(* Bounds of the model                                                  *)
(* ------------------------------------------------------------------ *)

\* Longest string handed to uart_transmit_buffer.
MaxStrLen == 2

\* Size of g_rx_buffer_storage.  The source sets 100 (src/uart.h:16); the
\* handler's behaviour depends on it only through the comparison
\* g_rx_index < RX_BUFFER_SIZE_BYTES - 1, so the model runs a scaled buffer.
RX_BUFFER_SIZE_BYTES == 4

(* ------------------------------------------------------------------ *)
(* Program constants                                                    *)
(* ------------------------------------------------------------------ *)

LF  == 10
CR  == 13
NUL == 0

UART_STATE_IDLE    == "IDLE"
UART_STATE_TX_BUSY == "TX_BUSY"
UART_STATE_RX_BUSY == "RX_BUSY"
UART_STATE_ERROR   == "ERROR"

UART_ERROR_NONE    == "NONE"
UART_ERROR_OVERRUN == "OVERRUN"
UART_ERROR_FRAMING == "FRAMING"
UART_ERROR_PARITY  == "PARITY"
UART_ERROR_NOISE   == "NOISE"

(* ------------------------------------------------------------------ *)
(* Inputs                                                               *)
(* ------------------------------------------------------------------ *)

\* The strings the main line transmits: "", "A", "AB", ...
TxStrings == { [i \in 1..n |-> 64 + i] : n \in 0..MaxStrLen }

\* The bytes the line delivers to the receiver: 'X', '\n', '\r'.
RxBytes == {88, LF, CR}

\* A char const * : NULL or the address of a string.
NULL == [null |-> TRUE, str |-> <<>>]
Ptr(s) == [null |-> FALSE, str |-> s]

VARIABLES
    pc,             \* main line: "main" (outside the driver) or the next statement
    callee,         \* the driver function the main line called last
    p_str,          \* argument of uart_transmit_buffer
    ret,            \* return value of the last completed call
    cr1_tmp,        \* value of USART_CR1 loaded by a main-line |=
    primask,        \* TRUE while interrupt delivery is disabled (cpsid i)
    g_tx_state, g_p_tx_buffer, g_tx_length, g_tx_index,
    g_rx_state, g_rx_index, g_error, g_rx_buffer,
    TXEIE, RXNEIE,  \* USART_CR1 interrupt enable bits
    TXE, RXNE,      \* USART_ISR transmit-empty and receive-not-empty flags
    errflags,       \* USART_ISR error flags that are set
    USART_RDR,      \* receive data register
    accepted,       \* history: the string of the last accepted transmit call
    tdr_log,        \* history: bytes written to USART_TDR since that acceptance
    fed             \* history: bytes handed to the RX path since the write index was 0

\* The tokenizer (src/jsmn.c): one call of jsmn_parse and its arguments.
VARIABLES
    jpc,            \* jsmn_parse: "unused", "scan" (in the main loop) or "done"
    p_js,           \* the buffer
    len,            \* the length handed to jsmn_parse
    p_tokens,       \* the token array, or NoTokens for a NULL pointer
    num_tokens,     \* its capacity
    p_parser,       \* jsmn_parser_t: pos, toknext, toksuper
    count,          \* local of jsmn_parse
    parse_ret,      \* return value of jsmn_parse
    doc,            \* history: the document p_js was written from, or NoDoc
    call,           \* which call of jsmn_parse this is: "none", "first", ...
    prev            \* history: what the first call returned and left in the array

jsmnVars == <<jpc, p_js, len, p_tokens, num_tokens, p_parser, count, parse_ret, doc,
              call, prev>>

\* The application (src/jsonprocess.c, src/main.c, src/delay.c): the main loop
\* that calls json_process, and the millisecond tick.
VARIABLES
    jp,              \* main line of the application: "unused", "init" (in
                     \* json_process_init), "loop" (in main's loop, between calls of
                     \* json_process) or the place inside json_process
    g_json_state,    \* state machine of json_process
    g_current_token, \* token cursor
    g_parse_result,  \* what jsmn_parse returned in json_process_init
    g_delay_start,   \* tick at which the current delay started
    g_systick_ms,    \* tick counter
    output_buffer,   \* local of json_process: the formatted line
    after,           \* which branch of json_process made the call in progress
    elem_j,          \* local j of json_process: index of the array element
    array_delay,     \* local of json_process: tick at which the element delay started
    jret,            \* return value of the last call of json_process
    sent,            \* history: the lines handed to uart_transmit_buffer
    since,           \* a caller of delay.c: the tick delay_start returned
    wanted,          \* ... the duration it waits for
    answer,          \* ... what its last delay_elapsed returned, -1 before
    lapse            \* history: the ticks counted since delay_start, unwrapped

delayVars == <<since, wanted, answer, lapse>>
jsonVars == <<jp, g_json_state, g_current_token, g_parse_result, g_delay_start,
              g_systick_ms, output_buffer, after, elem_j, array_delay, jret, sent,
              delayVars>>

mainVars == <<pc, callee, p_str, ret, cr1_tmp, primask>>
txVars   == <<g_tx_state, g_p_tx_buffer, g_tx_length, g_tx_index>>
rxVars   == <<g_rx_state, g_rx_index, g_error, g_rx_buffer>>
cr1Vars  == <<TXEIE, RXNEIE>>
isrVars  == <<TXE, RXNE, errflags, USART_RDR>>
histVars == <<accepted, tdr_log, fed>>
vars == <<pc, callee, p_str, ret, cr1_tmp, primask,
          g_tx_state, g_p_tx_buffer, g_tx_length, g_tx_index,
          g_rx_state, g_rx_index, g_error, g_rx_buffer,
          TXEIE, RXNEIE, TXE, RXNE, errflags, USART_RDR,
          accepted, tdr_log, fed, jsmnVars, jsonVars>>

\* The driver's variables alone.
uartVars == <<mainVars, txVars, rxVars, cr1Vars, isrVars, histVars>>

\* A NULL token array.
NoTokens == [null |-> TRUE, tok |-> <<>>]

\* The buffer was not written from a document.
NoDoc == [kind |-> "none", kids |-> <<>>]

\* No earlier call has returned.
NoPrev == [ret |-> 0, tokens |-> NoTokens]

\* The tokenizer has not been called (the UART specifications).
ParserUnused ==
    /\ call = "none"
    /\ prev = NoPrev
    /\ jpc = "unused"
    /\ p_js = <<>>
    /\ len = 0
    /\ p_tokens = NoTokens
    /\ num_tokens = 0
    /\ p_parser = [pos |-> 0, toknext |-> 0, toksuper |-> -1]
    /\ count = 0
    /\ parse_ret = 0
    /\ doc = NoDoc

\* json_process_init has not been called: the static initialisers of
\* src/jsonprocess.c and src/delay.c (the tokenizer and the driver
\* specifications).
JsonUnused ==
    /\ jp = "unused"
    /\ g_json_state = "JSON_STATE_IDLE"
    /\ g_current_token = 1
    /\ g_parse_result = 0
    /\ g_delay_start = 0
    /\ g_systick_ms = 0
    /\ output_buffer = <<>>
    /\ after = "none"
    /\ elem_j = 0
    /\ array_delay = 0
    /\ jret = 0
    /\ sent = <<>>
    /\ since = 0
    /\ wanted = 0
    /\ answer = -1
    /\ lapse = 0

\* strlen(p_str)
strlen(s) == Len(s)

\* State after the static initialisers and uart_init: both halves idle, both
\* interrupt sources disabled, the transmit register empty.
DriverIdle ==
    /\ pc = "main"
    /\ callee = "none"
    /\ p_str = NULL
    /\ ret = 0
    /\ cr1_tmp = <<FALSE, FALSE>>
    /\ primask = FALSE
    /\ g_tx_state = UART_STATE_IDLE
    /\ g_p_tx_buffer = NULL
    /\ g_tx_length = 0
    /\ g_tx_index = 0
    /\ g_rx_state = UART_STATE_IDLE
    /\ g_rx_index = 0
    /\ g_error = UART_ERROR_NONE
    /\ g_rx_buffer = [i \in 0..(RX_BUFFER_SIZE_BYTES - 1) |-> NUL]
    /\ TXEIE = FALSE
    /\ RXNEIE = FALSE
    /\ TXE = TRUE
    /\ RXNE = FALSE
    /\ errflags = {}
    /\ USART_RDR = NUL
    /\ accepted = <<>>
    /\ tdr_log = <<>>
    /\ fed = <<>>

\* The UART specifications start with the driver idle and never call the
\* tokenizer.
Init == DriverIdle /\ ParserUnused /\ JsonUnused

(* ------------------------------------------------------------------ *)
(* uart_transmit_buffer (src/uart.c:205-234)                            *)
(* ------------------------------------------------------------------ *)

\* Leaving a driver function: its locals are dead.
Return(v) ==
    /\ pc' = "main"
    /\ ret' = v
    /\ p_str' = NULL
    /\ cr1_tmp' = <<FALSE, FALSE>>

\* The main line calls uart_transmit_buffer(p).
TxCall(p) ==
    /\ pc = "main"
    /\ callee' = "uart_transmit_buffer"
    /\ p_str' = p
    /\ pc' = "tx_entry"
    /\ UNCHANGED <<ret, cr1_tmp, primask, txVars, rxVars, cr1Vars, isrVars, histVars>>
    /\ UNCHANGED <<jsmnVars, jsonVars>>

\* Faulty variant of TxNullReject: the transmitter is claimed before the
\* NULL test.
TxNullReject_ClaimsTx ==
    /\ pc = "tx_entry"
    /\ p_str = NULL
    /\ g_tx_state' = UART_STATE_TX_BUSY
    /\ Return(-1)
    /\ UNCHANGED <<callee, primask, g_p_tx_buffer, g_tx_length, g_tx_index, rxVars,
                   cr1Vars, isrVars, histVars>>
    /\ UNCHANGED <<jsmnVars, jsonVars>>

\* if (NULL == p_str) return -1;
TxNullReject ==
    /\ pc = "tx_entry"
    /\ p_str = NULL
    /\ Return(-1)
    /\ UNCHANGED <<callee, primask, txVars, rxVars, cr1Vars, isrVars, histVars>>
    /\ UNCHANGED <<jsmnVars, jsonVars>>

\* The NULL test passes; __disable_irq();
TxDisableIrq ==
    /\ pc = "tx_entry"
    /\ p_str # NULL
    /\ primask' = TRUE
    /\ pc' = "tx_crit"
    /\ UNCHANGED <<callee, p_str, ret, cr1_tmp, txVars, rxVars, cr1Vars, isrVars,
                   histVars>>
    /\ UNCHANGED <<jsmnVars, jsonVars>>

\* Faulty variant of TxBusyReject: the index is re-armed before the rejection.
TxBusyReject_Rearm ==
    /\ pc = "tx_crit"
    /\ g_tx_state # UART_STATE_IDLE
    /\ g_tx_index' = 0
    /\ primask' = FALSE
    /\ Return(-2)
    /\ UNCHANGED <<callee, g_tx_state, g_p_tx_buffer, g_tx_length, rxVars, cr1Vars,
                   isrVars, histVars>>
    /\ UNCHANGED <<jsmnVars, jsonVars>>

\* if (UART_STATE_IDLE != g_tx_state) { __enable_irq(); return -2; }
TxBusyReject ==
    /\ pc = "tx_crit"
    /\ g_tx_state # UART_STATE_IDLE
    /\ primask' = FALSE
    /\ Return(-2)
    /\ UNCHANGED <<callee, txVars, rxVars, cr1Vars, isrVars, histVars>>
    /\ UNCHANGED <<jsmnVars, jsonVars>>

\* g_tx_state = UART_STATE_TX_BUSY; __enable_irq();
TxAccept ==
    /\ pc = "tx_crit"
    /\ g_tx_state = UART_STATE_IDLE
    /\ g_tx_state' = UART_STATE_TX_BUSY
    /\ primask' = FALSE
    /\ pc' = "tx_buf"
    /\ accepted' = p_str.str
    /\ tdr_log' = <<>>
    /\ UNCHANGED <<callee, p_str, ret, cr1_tmp, g_p_tx_buffer, g_tx_length,
                   g_tx_index, rxVars, cr1Vars, isrVars, fed>>
    /\ UNCHANGED <<jsmnVars, jsonVars>>

\* g_p_tx_buffer = p_str;
TxSetBuffer ==
    /\ pc = "tx_buf"
    /\ g_p_tx_buffer' = p_str
    /\ pc' = "tx_len"
    /\ UNCHANGED <<callee, p_str, ret, cr1_tmp, primask, g_tx_state, g_tx_length,
                   g_tx_index, rxVars, cr1Vars, isrVars, histVars>>
    /\ UNCHANGED <<jsmnVars, jsonVars>>

\* g_tx_length = (uint32_t)strlen(p_str);
TxSetLength ==
    /\ pc = "tx_len"
    /\ g_tx_length' = strlen(p_str.str)
    /\ pc' = "tx_idx"
    /\ UNCHANGED <<callee, p_str, ret, cr1_tmp, primask, g_tx_state, g_p_tx_buffer,
                   g_tx_index, rxVars, cr1Vars, isrVars, histVars>>
    /\ UNCHANGED <<jsmnVars, jsonVars>>

\* g_tx_index = 0u;
TxSetIndex ==
    /\ pc = "tx_idx"
    /\ g_tx_index' = 0
    /\ pc' = "tx_cr1_load"
    /\ UNCHANGED <<callee, p_str, ret, cr1_tmp, primask, g_tx_state, g_p_tx_buffer,
                   g_tx_length, rxVars, cr1Vars, isrVars, histVars>>
    /\ UNCHANGED <<jsmnVars, jsonVars>>

\* *USART_CR1 |= (1u << USART_CR1_TXEIE_BIT);  -- the load
TxCr1Load ==
    /\ pc = "tx_cr1_load"
    /\ cr1_tmp' = <<TXEIE, RXNEIE>>
    /\ pc' = "tx_cr1_store"
    /\ UNCHANGED <<callee, p_str, ret, primask, txVars, rxVars, cr1Vars, isrVars,
                   histVars>>
    /\ UNCHANGED <<jsmnVars, jsonVars>>

\* ... the store, then return 0;
TxCr1Store ==
    /\ pc = "tx_cr1_store"
    /\ TXEIE' = TRUE
    /\ RXNEIE' = cr1_tmp[2]
    /\ Return(0)
    /\ UNCHANGED <<callee, primask, txVars, rxVars, isrVars, histVars>>
    /\ UNCHANGED <<jsmnVars, jsonVars>>

uart_transmit_buffer ==
    \/ \E p \in {NULL} \cup {Ptr(s) : s \in TxStrings} : TxCall(p)
    \/ TxNullReject
    \/ TxDisableIrq
    \/ TxBusyReject
    \/ TxAccept
    \/ TxSetBuffer
    \/ TxSetLength
    \/ TxSetIndex
    \/ TxCr1Load
    \/ TxCr1Store

(* ------------------------------------------------------------------ *)
(* uart_receive_buffer (src/uart.c:245-264)                             *)
(* ------------------------------------------------------------------ *)

\* Entry: __disable_irq();
RxCall ==
    /\ pc = "main"
    /\ callee' = "uart_receive_buffer"
    /\ primask' = TRUE
    /\ pc' = "rx_crit"
    /\ UNCHANGED <<p_str, ret, cr1_tmp, txVars, rxVars, cr1Vars, isrVars, histVars>>
    /\ UNCHANGED <<jsmnVars, jsonVars>>

\* Faulty variant of RxBusyReject: the write index is reset before the
\* rejection.
RxBusyReject_ResetsIndex ==
    /\ pc = "rx_crit"
    /\ g_rx_state # UART_STATE_IDLE
    /\ g_rx_index' = 0
    /\ primask' = FALSE
    /\ Return(-1)
    /\ UNCHANGED <<callee, txVars, g_rx_state, g_error, g_rx_buffer, cr1Vars, isrVars,
                   histVars>>
    /\ UNCHANGED <<jsmnVars, jsonVars>>

\* if (UART_STATE_IDLE != g_rx_state) { __enable_irq(); return -1; }
RxBusyReject ==
    /\ pc = "rx_crit"
    /\ g_rx_state # UART_STATE_IDLE
    /\ primask' = FALSE
    /\ Return(-1)
    /\ UNCHANGED <<callee, txVars, rxVars, cr1Vars, isrVars, histVars>>
    /\ UNCHANGED <<jsmnVars, jsonVars>>

\* g_rx_state = UART_STATE_RX_BUSY; __enable_irq();
RxAccept ==
    /\ pc = "rx_crit"
    /\ g_rx_state = UART_STATE_IDLE
    /\ g_rx_state' = UART_STATE_RX_BUSY
    /\ primask' = FALSE
    /\ pc' = "rx_cr1_load"
    /\ UNCHANGED <<callee, p_str, ret, cr1_tmp, txVars, g_rx_index, g_error,
                   g_rx_buffer, cr1Vars, isrVars, histVars>>
    /\ UNCHANGED <<jsmnVars, jsonVars>>

\* *USART_CR1 |= (1u << USART_CR1_RXNEIE_BIT);  -- the load
RxCr1Load ==
    /\ pc = "rx_cr1_load"
    /\ cr1_tmp' = <<TXEIE, RXNEIE>>
    /\ pc' = "rx_cr1_store"
    /\ UNCHANGED <<callee, p_str, ret, primask, txVars, rxVars, cr1Vars, isrVars,
                   histVars>>
    /\ UNCHANGED <<jsmnVars, jsonVars>>

\* ... the store, then return 0;
RxCr1Store ==
    /\ pc = "rx_cr1_store"
    /\ TXEIE' = cr1_tmp[1]
    /\ RXNEIE' = TRUE
    /\ Return(0)
    /\ UNCHANGED <<callee, primask, txVars, rxVars, isrVars, histVars>>
    /\ UNCHANGED <<jsmnVars, jsonVars>>

uart_receive_buffer ==
    \/ RxCall
    \/ RxBusyReject
    \/ RxAccept
    \/ RxCr1Load
    \/ RxCr1Store

(* ------------------------------------------------------------------ *)
(* uart_error_reset (src/uart.c:376-386)                                *)
(* ------------------------------------------------------------------ *)

\* Faulty variant of ErCall: the reset runs whenever the receiver is not IDLE.
ErCall_ResetsBusy ==
    /\ pc = "main"
    /\ callee' = "uart_error_reset"
    /\ IF g_rx_state # UART_STATE_IDLE
       THEN pc' = "er_state" /\ UNCHANGED <<ret, p_str, cr1_tmp>>
       ELSE Return(ret)
    /\ UNCHANGED <<primask, txVars, rxVars, cr1Vars, isrVars, histVars>>
    /\ UNCHANGED <<jsmnVars, jsonVars>>

\* Entry and the test  if (UART_STATE_ERROR == g_rx_state)
ErCall ==
    /\ pc = "main"
    /\ callee' = "uart_error_reset"
    /\ IF g_rx_state = UART_STATE_ERROR
       THEN pc' = "er_state" /\ UNCHANGED <<ret, p_str, cr1_tmp>>
       ELSE Return(ret)
    /\ UNCHANGED <<primask, txVars, rxVars, cr1Vars, isrVars, histVars>>
    /\ UNCHANGED <<jsmnVars, jsonVars>>

\* g_rx_state = UART_STATE_RX_BUSY;
ErSetState ==
    /\ pc = "er_state"
    /\ g_rx_state' = UART_STATE_RX_BUSY
    /\ pc' = "er_error"
    /\ UNCHANGED <<callee, p_str, ret, cr1_tmp, primask, txVars, g_rx_index, g_error,
                   g_rx_buffer, cr1Vars, isrVars, histVars>>
    /\ UNCHANGED <<jsmnVars, jsonVars>>

\* g_error = UART_ERROR_NONE;
ErSetError ==
    /\ pc = "er_error"
    /\ g_error' = UART_ERROR_NONE
    /\ pc' = "er_index"
    /\ UNCHANGED <<callee, p_str, ret, cr1_tmp, primask, txVars, g_rx_state, g_rx_index,
                   g_rx_buffer, cr1Vars, isrVars, histVars>>
    /\ UNCHANGED <<jsmnVars, jsonVars>>

\* g_rx_index = 0u;
ErSetIndex ==
    /\ pc = "er_index"
    /\ g_rx_index' = 0
    /\ fed' = <<>>
    /\ pc' = "er_cr1_load"
    /\ UNCHANGED <<callee, p_str, ret, cr1_tmp, primask, txVars, g_rx_state, g_error,
                   g_rx_buffer, cr1Vars, isrVars, accepted, tdr_log>>
    /\ UNCHANGED <<jsmnVars, jsonVars>>

\* *USART_CR1 |= (1u << USART_CR1_RXNEIE_BIT);  -- the load
ErCr1Load ==
    /\ pc = "er_cr1_load"
    /\ cr1_tmp' = <<TXEIE, RXNEIE>>
    /\ pc' = "er_cr1_store"
    /\ UNCHANGED <<callee, p_str, ret, primask, txVars, rxVars, cr1Vars, isrVars,
                   histVars>>
    /\ UNCHANGED <<jsmnVars, jsonVars>>

\* ... the store, then return
ErCr1Store ==
    /\ pc = "er_cr1_store"
    /\ TXEIE' = cr1_tmp[1]
    /\ RXNEIE' = TRUE
    /\ Return(ret)
    /\ UNCHANGED <<callee, primask, txVars, rxVars, isrVars, histVars>>
    /\ UNCHANGED <<jsmnVars, jsonVars>>

uart_error_reset ==
    \/ ErCall
    \/ ErSetState
    \/ ErSetError
    \/ ErSetIndex
    \/ ErCr1Load
    \/ ErCr1Store

(* ------------------------------------------------------------------ *)
(* USART2_IRQHandler (src/uart.c:274-367)                               *)
(* ------------------------------------------------------------------ *)

\* The bytes the read g_p_tx_buffer[i] can yield: the i-th character, the
\* string's terminator, or, past the terminator, whatever the memory holds.
TxFetch(p, i) ==
    IF i < Len(p.str) THEN {p.str[i + 1]}
    ELSE IF i = Len(p.str) THEN {NUL}
    ELSE {NUL} \cup {64 + k : k \in 1..MaxStrLen}

\* (*USART_ISR & TXE) != 0 && UART_STATE_TX_BUSY == g_tx_state
IsrTxTaken == TXE /\ g_tx_state = UART_STATE_TX_BUSY

\* (NULL != g_p_tx_buffer) && (g_tx_index < g_tx_length)
IsrTxHasByte == g_p_tx_buffer # NULL /\ g_tx_index < g_tx_length

\* *USART_TDR = g_p_tx_buffer[g_tx_index]; g_tx_index++;
\* Writing the data register clears the transmit-empty flag.
IsrTxSend ==
    /\ \E b \in TxFetch(g_p_tx_buffer, g_tx_index) : tdr_log' = Append(tdr_log, b)
    /\ g_tx_index' = g_tx_index + 1
    /\ TXE' = FALSE
    /\ UNCHANGED <<g_tx_state, g_p_tx_buffer, TXEIE>>

\* Transmission complete: disable TXEIE, clear the pointer, go IDLE.
IsrTxComplete ==
    /\ TXEIE' = FALSE
    /\ g_p_tx_buffer' = NULL
    /\ g_tx_state' = UART_STATE_IDLE
    /\ UNCHANGED <<g_tx_index, TXE, tdr_log>>

\* The handler's transmit half (src/uart.c:279-295).
IsrTx ==
    /\ IF IsrTxTaken
       THEN IF IsrTxHasByte THEN IsrTxSend ELSE IsrTxComplete
       ELSE UNCHANGED <<g_tx_state, g_p_tx_buffer, g_tx_index, TXEIE, TXE, tdr_log>>
    /\ UNCHANGED g_tx_length

\* Faulty variant of IsrRxTaken: the receive branch is not gated on the state.
IsrRxTaken_AnyState == RXNE

\* Faulty variant of IsrRxTaken: the handler also serves a receiver in ERROR.
IsrRxTaken_RetriesInError ==
    RXNE /\ g_rx_state \in {UART_STATE_RX_BUSY, UART_STATE_ERROR}

\* (*USART_ISR & RXNE) != 0 && UART_STATE_RX_BUSY == g_rx_state
IsrRxTaken == RXNE /\ g_rx_state = UART_STATE_RX_BUSY

\* b_has_error: ORE, FE, NF or PE is set
IsrRxHasError == errflags # {}

\* Faulty variant of IsLineEnd: only '\n' ends a line.
IsLineEnd_LfOnly(c) == c = LF

\* '\n' == c || '\r' == c
IsLineEnd(c) == c = LF \/ c = CR

\* g_p_rx_buffer[g_rx_index] = *USART_RDR; g_rx_index++; and, on a line ending,
\* the terminator, IDLE and RXNEIE off.  Reading the data register clears RXNE
\* and empties the register (shown as NUL: it is not read again until refilled).
IsrRxStore ==
    /\ g_rx_index' = g_rx_index + 1
    /\ RXNE' = FALSE
    /\ USART_RDR' = NUL
    /\ IF IsLineEnd(USART_RDR)
       THEN /\ g_rx_buffer' = [g_rx_buffer EXCEPT ![g_rx_index] = USART_RDR,
                                                   ![g_rx_index + 1] = NUL]
            /\ g_rx_state' = UART_STATE_IDLE
            /\ RXNEIE' = FALSE
       ELSE /\ g_rx_buffer' = [g_rx_buffer EXCEPT ![g_rx_index] = USART_RDR]
            /\ UNCHANGED <<g_rx_state, RXNEIE>>

\* Faulty variant of IsrRxOverflow: the overflow is reported as an error state.
IsrRxOverflow_ReportsError ==
    /\ RXNEIE' = FALSE
    /\ g_rx_state' = UART_STATE_ERROR
    /\ UNCHANGED <<g_rx_index, g_rx_buffer, RXNE, USART_RDR>>

\* Buffer overflow - disable interrupt, go IDLE; nothing is read or stored.
IsrRxOverflow ==
    /\ RXNEIE' = FALSE
    /\ g_rx_state' = UART_STATE_IDLE
    /\ UNCHANGED <<g_rx_index, g_rx_buffer, RXNE, USART_RDR>>

\* Faulty variant of IsrRxData: no byte is reserved for the terminator.
IsrRxData_NoReserve ==
    /\ g_error' = UART_ERROR_NONE
    /\ IF g_rx_index < RX_BUFFER_SIZE_BYTES THEN IsrRxStore ELSE IsrRxOverflow
    /\ UNCHANGED errflags

\* The no-error path: g_error = UART_ERROR_NONE, then store or overflow.
IsrRxData ==
    /\ g_error' = UART_ERROR_NONE
    /\ IF g_rx_index < RX_BUFFER_SIZE_BYTES - 1 THEN IsrRxStore ELSE IsrRxOverflow
    /\ UNCHANGED errflags

\* Faulty variant of FirstErrorFlag: the chain in the order of the b_has_error
\* test (ORE, FE, NF, PE).
FirstErrorFlag_NoiseBeforeParity(f) ==
    IF "ORE" \in f THEN "ORE"
    ELSE IF "FE" \in f THEN "FE"
    ELSE IF "NF" \in f THEN "NF"
    ELSE "PE"

\* The flag the if / else-if chain picks: ORE, FE, PE, NF.
FirstErrorFlag(f) ==
    IF "ORE" \in f THEN "ORE"
    ELSE IF "FE" \in f THEN "FE"
    ELSE IF "PE" \in f THEN "PE"
    ELSE "NF"

ErrorOfFlag(x) ==
    CASE x = "ORE" -> UART_ERROR_OVERRUN
      [] x = "FE"  -> UART_ERROR_FRAMING
      [] x = "PE"  -> UART_ERROR_PARITY
      [] x = "NF"  -> UART_ERROR_NOISE

\* Hardware error detected: RXNEIE off, ERROR, the first flag cleared through
\* USART_ICR and reported in g_error.  The data register is not read.
IsrRxError ==
    /\ RXNEIE' = FALSE
    /\ g_rx_state' = UART_STATE_ERROR
    /\ errflags' = errflags \ {FirstErrorFlag(errflags)}
    /\ g_error' = ErrorOfFlag(FirstErrorFlag(errflags))
    /\ UNCHANGED <<g_rx_index, g_rx_buffer, RXNE, USART_RDR>>

\* The handler's receive half (src/uart.c:297-366).
IsrRx ==
    IF IsrRxTaken
    THEN IF IsrRxHasError THEN IsrRxError ELSE IsrRxData
    ELSE UNCHANGED <<g_rx_state, g_rx_index, g_error, g_rx_buffer, RXNEIE, RXNE,
                     errflags, USART_RDR>>

\* History: a byte is handed to the RX path when the handler runs with the
\* receiver busy, a byte waiting and no error flag, while the line that
\* started at write index 0 still fits the buffer.
FedNext ==
    IF IsrRxTaken /\ ~IsrRxHasError /\ Len(fed) < RX_BUFFER_SIZE_BYTES - 1
    THEN Append(fed, USART_RDR)
    ELSE fed

\* An enabled interrupt source is pending.
IrqPending == (TXEIE /\ TXE) \/ (RXNEIE /\ RXNE)

\* One invocation of the handler: it preempts the main line whenever interrupt
\* delivery is enabled and a source is pending, and runs to completion.
USART2_IRQHandler ==
    /\ ~primask
    /\ IrqPending
    /\ IsrTx
    /\ IsrRx
    /\ fed' = FedNext
    /\ UNCHANGED <<mainVars, accepted>>
    /\ UNCHANGED <<jsmnVars, jsonVars>>

(* ------------------------------------------------------------------ *)
(* The USART2 peripheral                                                *)
(* ------------------------------------------------------------------ *)

\* The byte in the data register moves to the shift register.
HwTxEmpty ==
    /\ ~TXE
    /\ TXE' = TRUE
    /\ UNCHANGED <<mainVars, txVars, rxVars, cr1Vars, RXNE, errflags, USART_RDR,
                   histVars>>
    /\ UNCHANGED <<jsmnVars, jsonVars>>

\* A byte arrives in the empty data register, with or without framing, noise
\* and parity errors.
HwReceive(b, e) ==
    /\ ~RXNE
    /\ RXNE' = TRUE
    /\ USART_RDR' = b
    /\ errflags' = errflags \cup e
    /\ UNCHANGED <<mainVars, txVars, rxVars, cr1Vars, TXE, histVars>>
    /\ UNCHANGED <<jsmnVars, jsonVars>>

\* A byte arrives while the previous one is unread: overrun.
HwOverrun ==
    /\ RXNE
    /\ "ORE" \notin errflags
    /\ errflags' = errflags \cup {"ORE"}
    /\ UNCHANGED <<mainVars, txVars, rxVars, cr1Vars, TXE, RXNE, USART_RDR, histVars>>
    /\ UNCHANGED <<jsmnVars, jsonVars>>

\* The whole driver with the whole peripheral.
Next ==
    \/ uart_transmit_buffer
    \/ uart_receive_buffer
    \/ uart_error_reset
    \/ USART2_IRQHandler
    \/ HwTxEmpty
    \/ \E b \in RxBytes, e \in SUBSET {"FE", "NF", "PE"} : HwReceive(b, e)
    \/ HwOverrun

Spec == Init /\ [][Next]_vars

(* ------------------------------------------------------------------ *)
(* The two halves.  The transmit and the receive half share no driver   *)
(* variable, so the product above is checked as two specifications,     *)
(* each with one half complete and the other reduced to what it needs   *)
(* to invoke the handler.                                               *)
(* ------------------------------------------------------------------ *)

\* Transmit half: every transmit call, and a receiver that is armed and fed
\* error-free bytes ('X' and '\n'), so that the handler is invoked on
\* transmit-ready, on receive-ready and on both.
NextTx ==
    \/ uart_transmit_buffer
    \/ uart_receive_buffer
    \/ USART2_IRQHandler
    \/ HwTxEmpty
    \/ \E b \in {88, LF} : HwReceive(b, {})

SpecTx == Init /\ [][NextTx]_vars

\* Receive half: receive calls, error recovery, every received byte and every
\* combination of error flags; the transmitter stays idle.
NextRx ==
    \/ uart_receive_buffer
    \/ uart_error_reset
    \/ USART2_IRQHandler
    \/ \E b \in RxBytes, e \in SUBSET {"FE", "NF", "PE"} : HwReceive(b, e)
    \/ HwOverrun

SpecRx == Init /\ [][NextRx]_vars

\* Both halves at once: one string ("A") is transmitted again and again while
\* the receiver is armed, fed bytes with and without errors, and recovered.
\* The inputs are reduced ('X' and '\n'; no error, one flag, two flags,
\* overrun) to keep the product explorable.
NextDuplex ==
    \/ TxCall(Ptr(<<65>>))
    \/ TxDisableIrq
    \/ TxBusyReject
    \/ TxAccept
    \/ TxSetBuffer
    \/ TxSetLength
    \/ TxSetIndex
    \/ TxCr1Load
    \/ TxCr1Store
    \/ uart_receive_buffer
    \/ uart_error_reset
    \/ USART2_IRQHandler
    \/ HwTxEmpty
    \/ \E b \in {88, LF}, e \in {{}, {"FE"}, {"FE", "PE"}} : HwReceive(b, e)
    \/ HwOverrun

SpecDuplex == Init /\ [][NextDuplex]_vars

\* Scheduling.  The main line executes the next statement of the call it is
\* in.  A pending interrupt is taken as soon as delivery is enabled, so the
\* handler cannot be starved by a main line that keeps entering and leaving
\* critical sections: it is strongly fair.  The transmit register empties.
MainStep == pc # "main" /\ (uart_transmit_buffer \/ uart_receive_buffer)

FairSpecTx ==
    /\ SpecTx
    /\ WF_vars(MainStep)
    /\ SF_vars(USART2_IRQHandler)
    /\ WF_vars(HwTxEmpty)

(* ------------------------------------------------------------------ *)
(* Properties of the transmit half                                      *)
(* ------------------------------------------------------------------ *)

IsPrefix(a, b) == Len(a) <= Len(b) /\ SubSeq(b, 1, Len(a)) = a

\* The last accepted uart_transmit_buffer call has returned.
TxReturned == pc \notin {"tx_buf", "tx_len", "tx_idx", "tx_cr1_load", "tx_cr1_store"}

\* Every byte of the accepted string has been written to USART_TDR, in order.
AllWritten ==
    \E k \in 0..Len(tdr_log) : SubSeq(tdr_log, k + 1, Len(tdr_log)) = accepted

\* C1: after an accepted uart_transmit_buffer(s) has returned, the bytes
\* written to the transmit data register are a prefix of s, and once
\* g_tx_state is IDLE again they are exactly s, each byte once, in order.
C1_TxBytesInOrder ==
    TxReturned =>
        /\ IsPrefix(tdr_log, accepted)
        /\ (g_tx_state = UART_STATE_IDLE => tdr_log = accepted)

\* C2: at most one transmission is in flight: whenever a uart_transmit_buffer
\* call finds the transmitter IDLE (and so goes on to return 0), every byte of
\* the previously accepted string has been written to the data register.
C2_OneTxInFlight ==
    (pc = "tx_crit" /\ g_tx_state = UART_STATE_IDLE) => AllWritten

\* C3: a uart_transmit_buffer call with a non-NULL string that finds
\* g_tx_state not IDLE returns -2 and leaves g_tx_state, g_p_tx_buffer,
\* g_tx_length, g_tx_index and TXEIE as they were.
C3_BusyRejectLeavesTx ==
    [][ (pc = "tx_crit" /\ pc' # pc /\ g_tx_state # UART_STATE_IDLE)
        => /\ pc' = "main"
           /\ ret' = -2
           /\ g_tx_state' = g_tx_state
           /\ g_p_tx_buffer' = g_p_tx_buffer
           /\ g_tx_length' = g_tx_length
           /\ g_tx_index' = g_tx_index
           /\ TXEIE' = TXEIE ]_vars

\* C3 witness: a call was rejected with -2 while a transmission with unsent
\* bytes is in flight.
C3_Witness ==
    /\ pc = "main"
    /\ callee = "uart_transmit_buffer"
    /\ ret = -2
    /\ g_tx_state = UART_STATE_TX_BUSY
    /\ g_p_tx_buffer # NULL
    /\ g_tx_index < g_tx_length
    /\ TXEIE

\* C4: once an accepted call for a non-empty string has returned, g_tx_state
\* is TX_BUSY for as long as a byte of the string is still unwritten.
C4_BusyUntilLastByte ==
    (TxReturned /\ accepted # <<>> /\ ~AllWritten) => g_tx_state = UART_STATE_TX_BUSY

\* C5: every uart_transmit_buffer call that returns 0 is eventually followed
\* by a state where g_tx_state is IDLE and TXEIE is disabled.
C5_TxCompletes ==
    (pc = "main" /\ callee = "uart_transmit_buffer" /\ ret = 0)
        ~> (g_tx_state = UART_STATE_IDLE /\ ~TXEIE)

\* C6: uart_transmit_buffer(NULL) returns -1 and changes neither g_tx_state,
\* the TX context nor the interrupt enable bits (nor anything of the receiver).
C6_NullRejectChangesNothing ==
    [][ (pc = "tx_entry" /\ pc' # pc /\ p_str = NULL)
        => /\ pc' = "main"
           /\ ret' = -1
           /\ UNCHANGED <<txVars, cr1Vars, rxVars, primask>> ]_vars

\* C6 witness: a NULL call returned -1 while a transmission is in flight.
C6_Witness ==
    /\ pc = "main"
    /\ callee = "uart_transmit_buffer"
    /\ ret = -1
    /\ g_tx_state = UART_STATE_TX_BUSY
    /\ g_tx_index < g_tx_length

(* ------------------------------------------------------------------ *)
(* Properties of the receive half                                       *)
(* ------------------------------------------------------------------ *)

\* C7: uart_receive_buffer accepts exactly when g_rx_state is IDLE at its
\* check: it then sets RX_BUSY, sets RXNEIE and returns 0; otherwise (RX_BUSY
\* or ERROR) it returns -1 with g_rx_state, g_rx_index, g_error and RXNEIE
\* unchanged.
C7_ReceiveAcceptsIffIdle ==
    [][ /\ (pc = "rx_crit" /\ pc' # pc /\ g_rx_state = UART_STATE_IDLE)
            => (g_rx_state' = UART_STATE_RX_BUSY /\ pc' = "rx_cr1_load")
        /\ (pc = "rx_crit" /\ pc' # pc /\ g_rx_state # UART_STATE_IDLE)
            => /\ pc' = "main"
               /\ ret' = -1
               /\ UNCHANGED <<g_rx_state, g_rx_index, g_error, RXNEIE>>
        /\ (pc = "rx_cr1_load" /\ pc' # pc) => pc' = "rx_cr1_store"
        /\ (pc = "rx_cr1_store" /\ pc' # pc)
            => (pc' = "main" /\ ret' = 0 /\ RXNEIE') ]_vars

\* C7 witness: a call was rejected with -1 while the receiver is in ERROR.
C7_Witness ==
    /\ pc = "main"
    /\ callee = "uart_receive_buffer"
    /\ ret = -1
    /\ g_rx_state = UART_STATE_ERROR
    /\ ~RXNEIE

\* C8: a uart_receive_buffer call that is accepted leaves the write index at 0.
C8_ReceiveRearmsIndex ==
    pc = "rx_cr1_load" => g_rx_index = 0

\* C9: from write index 0, while no line ending has been fed yet and the line
\* is shorter than RX_BUFFER_SIZE_BYTES - 1, each byte handed to the handler is
\* stored behind the earlier ones; the receiver stays RX_BUSY on an ordinary
\* byte, and on the first '\n' or '\r' a '\0' follows it, g_rx_state becomes
\* IDLE and RXNEIE is disabled.
C9_LineReception ==
    [][ ( /\ Len(fed') = Len(fed) + 1
          /\ Len(fed') < RX_BUFFER_SIZE_BYTES - 1
          /\ \A k \in 1..Len(fed) : fed[k] \notin {LF, CR} )
        => /\ \A k \in 1..Len(fed') : g_rx_buffer'[k - 1] = fed'[k]
           /\ IF fed'[Len(fed')] \in {LF, CR}
              THEN /\ g_rx_buffer'[Len(fed')] = NUL
                   /\ g_rx_state' = UART_STATE_IDLE
                   /\ ~RXNEIE'
              ELSE g_rx_state' = UART_STATE_RX_BUSY ]_vars

\* C9 witness: "X\n" was fed from index 0: the buffer holds "X\n\0", IDLE.
C9_Witness ==
    /\ fed = <<88, LF>>
    /\ g_rx_buffer[0] = 88
    /\ g_rx_buffer[1] = LF
    /\ g_rx_buffer[2] = NUL
    /\ g_rx_state = UART_STATE_IDLE
    /\ ~RXNEIE

\* C10: a handler invocation that finds RX_BUSY, a byte waiting, no error flag
\* and the write index at RX_BUFFER_SIZE_BYTES - 1 stores nothing, disables
\* RXNEIE, sets g_rx_state to IDLE and leaves g_error at UART_ERROR_NONE.
C10_OverflowGoesIdle ==
    [][ ( /\ USART2_IRQHandler
          /\ RXNE
          /\ g_rx_state = UART_STATE_RX_BUSY
          /\ errflags = {}
          /\ g_rx_index = RX_BUFFER_SIZE_BYTES - 1 )
        => /\ g_rx_buffer' = g_rx_buffer
           /\ g_rx_index' = g_rx_index
           /\ ~RXNEIE'
           /\ g_rx_state' = UART_STATE_IDLE
           /\ g_error' = UART_ERROR_NONE ]_vars

\* C10 witness: the receiver went IDLE with the buffer full and no line ending
\* in its last data slot, the byte that did not fit still waiting.
C10_Witness ==
    /\ g_rx_state = UART_STATE_IDLE
    /\ g_rx_index = RX_BUFFER_SIZE_BYTES - 1
    /\ g_rx_buffer[RX_BUFFER_SIZE_BYTES - 2] \notin {LF, CR}
    /\ RXNE
    /\ errflags = {}
    /\ ~RXNEIE
    /\ g_error = UART_ERROR_NONE

\* C11: a handler invocation that finds RX_BUSY, a byte waiting and at least
\* one of the overrun, framing, parity and noise flags set stores nothing and
\* keeps the write index, disables RXNEIE, sets g_rx_state to ERROR, sets
\* g_error to the first set flag in the order overrun, framing, parity, noise
\* and clears that flag only.
C11_ErrorBranch ==
    [][ ( /\ USART2_IRQHandler
          /\ RXNE
          /\ g_rx_state = UART_STATE_RX_BUSY
          /\ errflags # {} )
        => /\ g_rx_buffer' = g_rx_buffer
           /\ g_rx_index' = g_rx_index
           /\ ~RXNEIE'
           /\ g_rx_state' = UART_STATE_ERROR
           /\ IF "ORE" \in errflags
              THEN g_error' = UART_ERROR_OVERRUN /\ errflags' = errflags \ {"ORE"}
              ELSE IF "FE" \in errflags
              THEN g_error' = UART_ERROR_FRAMING /\ errflags' = errflags \ {"FE"}
              ELSE IF "PE" \in errflags
              THEN g_error' = UART_ERROR_PARITY /\ errflags' = errflags \ {"PE"}
              ELSE g_error' = UART_ERROR_NOISE /\ errflags' = errflags \ {"NF"} ]_vars

\* C11 witness: parity and noise were both set on a partly received line; the
\* handler reported parity, left the noise flag set and the byte unread.
C11_Witness ==
    /\ g_rx_state = UART_STATE_ERROR
    /\ g_error = UART_ERROR_PARITY
    /\ errflags = {"NF"}
    /\ g_rx_index > 0
    /\ RXNE
    /\ ~RXNEIE

(* ------------------------------------------------------------------ *)
(* Error recovery and the two halves together                           *)
(* ------------------------------------------------------------------ *)

\* The main line is inside the ERROR branch of uart_error_reset.
InErrorReset == pc \in {"er_state", "er_error", "er_index", "er_cr1_load", "er_cr1_store"}

\* C12: a uart_error_reset call that found g_rx_state ERROR returns with
\* g_rx_state RX_BUSY, g_error UART_ERROR_NONE and RXNEIE enabled.  (The write
\* index is left out: it may already count a byte the handler stored after
\* the reset.)
C12_ErrorResetRearms ==
    [][ (pc = "er_cr1_store" /\ pc' = "main")
        => /\ g_rx_state' = UART_STATE_RX_BUSY
           /\ g_error' = UART_ERROR_NONE
           /\ RXNEIE' ]_vars

\* C13: while g_rx_state is ERROR and uart_error_reset has not been called,
\* every step (handler invocations, transmit and receive calls, the
\* peripheral) leaves g_rx_state ERROR, stores no byte and keeps the write
\* index, and uart_receive_buffer returns -1.
C13_NoAutomaticRetry ==
    [][ (g_rx_state = UART_STATE_ERROR /\ ~InErrorReset)
        => /\ g_rx_state' = UART_STATE_ERROR
           /\ g_rx_buffer' = g_rx_buffer
           /\ g_rx_index' = g_rx_index
           /\ (pc = "rx_crit" /\ pc' # pc) => (pc' = "main" /\ ret' = -1) ]_vars

\* C13 witness: the receiver is in ERROR with a further error flagged on the
\* unread byte, a receive call was rejected with -1, and the handler has been
\* transmitting meanwhile.
C13_Witness ==
    /\ g_rx_state = UART_STATE_ERROR
    /\ pc = "main"
    /\ callee = "uart_receive_buffer"
    /\ ret = -1
    /\ RXNE
    /\ errflags # {}
    /\ tdr_log = <<65>>
    /\ g_tx_state = UART_STATE_IDLE

\* The main line is inside uart_transmit_buffer.
InTransmit ==
    pc \in {"tx_entry", "tx_crit", "tx_buf", "tx_len", "tx_idx", "tx_cr1_load",
            "tx_cr1_store"}

\* The main line is inside uart_receive_buffer.
InReceive == pc \in {"rx_crit", "rx_cr1_load", "rx_cr1_store"}

\* C14: TX and RX are independent: a transmit call that finds g_tx_state IDLE
\* is accepted whatever g_rx_state is; no step of uart_transmit_buffer and no
\* handler invocation that takes only the TX branch changes g_rx_state,
\* g_rx_index, g_error or RXNEIE; no step of uart_receive_buffer or
\* uart_error_reset and no handler invocation that takes only the RX branch
\* changes g_tx_state, the TX context or TXEIE.
C14_TxRxIndependent ==
    [][ /\ (pc = "tx_crit" /\ pc' # pc /\ g_tx_state = UART_STATE_IDLE)
            => pc' = "tx_buf"
        /\ (InTransmit /\ pc' # pc)
            => UNCHANGED <<g_rx_state, g_rx_index, g_error, RXNEIE>>
        /\ (USART2_IRQHandler /\ ~IsrRxTaken)
            => UNCHANGED <<g_rx_state, g_rx_index, g_error, RXNEIE>>
        /\ ((InReceive \/ InErrorReset) /\ pc' # pc)
            => UNCHANGED <<g_tx_state, g_p_tx_buffer, g_tx_length, g_tx_index, TXEIE>>
        /\ (USART2_IRQHandler /\ ~IsrTxTaken)
            => UNCHANGED <<g_tx_state, g_p_tx_buffer, g_tx_length, g_tx_index, TXEIE>>
      ]_vars

\* C15: every main-line step that changes g_tx_state, g_p_tx_buffer,
\* g_tx_length, g_tx_index, g_rx_state, g_rx_index or g_error is taken while
\* interrupt delivery is disabled.
C15_WritesInCriticalSection ==
    [][ ( /\ pc' # pc
          /\ <<g_tx_state, g_p_tx_buffer, g_tx_length, g_tx_index,
                g_rx_state, g_rx_index, g_error>>'
             # <<g_tx_state, g_p_tx_buffer, g_tx_length, g_tx_index,
                 g_rx_state, g_rx_index, g_error>> )
        => primask ]_vars

(* ================================================================== *)
(* The tokenizer: jsmn_parse (src/jsmn.c), built without JSMN_STRICT    *)
(* and without JSMN_PARENT_LINKS.  One action per iteration of the      *)
(* main loop, by the character at the cursor; the string and primitive  *)
(* scans are loops over the buffer alone and are operators.             *)
(* ================================================================== *)

CHAR_QUOTE         == 34
CHAR_BACKSLASH     == 92
CHAR_FORWARD_SLASH == 47
CHAR_BACKSPACE     == 98
CHAR_FORM_FEED     == 102
CHAR_CARRIAGE_RET  == 114
CHAR_NEWLINE       == 110
CHAR_TAB           == 116
CHAR_UNICODE       == 117
CHAR_BRACE_OPEN    == 123
CHAR_BRACE_CLOSE   == 125
CHAR_BRACKET_OPEN  == 91
CHAR_BRACKET_CLOSE == 93
CHAR_COLON         == 58
CHAR_COMMA         == 44
CHAR_SPACE         == 32
CHAR_NULL          == 0
CHAR_LF            == 10
CHAR_CR            == 13
CHAR_HTAB          == 9

ASCII_PRINTABLE_MIN == 32
ASCII_PRINTABLE_MAX == 127
ASCII_DIGIT_0       == 48
ASCII_DIGIT_9       == 57
ASCII_UPPER_A       == 65
ASCII_UPPER_F       == 70
ASCII_LOWER_A       == 97
ASCII_LOWER_F       == 102

UNICODE_HEX_DIGITS == 4

\* jsmntype_t and the error codes (declared in jsmn.h).
JSMN_UNDEFINED == "UNDEFINED"
JSMN_OBJECT    == "OBJECT"
JSMN_ARRAY     == "ARRAY"
JSMN_STRING    == "STRING"
JSMN_PRIMITIVE == "PRIMITIVE"

JSMN_ERROR_INVAL == -1
JSMN_ERROR_NOMEM == -2
JSMN_ERROR_PART  == -3

\* p_js[i]
At(s, i) == s[i + 1]

\* A token array of capacity n as the caller hands it over; jsmn_parse reads no
\* slot it has not allocated.
TokenArray(n) ==
    [null |-> FALSE,
     tok  |-> [i \in 1..n |-> [type |-> JSMN_UNDEFINED, start |-> 0, end |-> 0,
                               size |-> 0]]]

\* jsmn_init
jsmn_init == [pos |-> 0, toknext |-> 0, toksuper |-> -1]

\* Faulty variant of CanAlloc: a slot past the end of the array is handed out.
CanAlloc_OneMore == p_parser.toknext <= num_tokens

\* Faulty variant of CanAlloc: the last slot is never handed out.
CanAlloc_OneLess == p_parser.toknext + 1 < num_tokens

\* jsmn_alloc_token succeeds.
CanAlloc == p_parser.toknext < num_tokens

\* Faulty variant of jsmn_alloc_token: the end of the slot is not reset.
jsmn_alloc_token_KeepsEnd(tok, k) ==
    [tok EXCEPT ![k + 1] = [@ EXCEPT !.start = -1, !.size = 0]]

\* Faulty variant of jsmn_alloc_token: the size of the slot is not reset.
jsmn_alloc_token_KeepsSize(tok, k) ==
    [tok EXCEPT ![k + 1] = [@ EXCEPT !.start = -1, !.end = -1]]

\* jsmn_alloc_token on slot k: start, end and size are reset, the type is not.
jsmn_alloc_token(tok, k) ==
    [tok EXCEPT ![k + 1] = [@ EXCEPT !.start = -1, !.end = -1, !.size = 0]]

\* Faulty variant of jsmn_fill_token: start and end are exchanged.
jsmn_fill_token_Swapped(tok, k, type, start, end) ==
    [tok EXCEPT ![k + 1] = [type |-> type, start |-> end, end |-> start, size |-> 0]]

\* jsmn_fill_token on slot k
jsmn_fill_token(tok, k, type, start, end) ==
    [tok EXCEPT ![k + 1] = [type |-> type, start |-> start, end |-> end, size |-> 0]]

\* p_tokens[sup].size++ when toksuper is not -1
IncSize(tok, sup) ==
    IF sup # -1 THEN [tok EXCEPT ![sup + 1].size = @ + 1] ELSE tok

\* (-1 != p_token->start) && (-1 == p_token->end)
IsOpen(t) == t.start # -1 /\ t.end = -1

(* ------------------------------------------------------------------ *)
(* jsmn_parse_string (src/jsmn.c:223-328): the scan                     *)
(* ------------------------------------------------------------------ *)

EscapeChars ==
    {CHAR_QUOTE, CHAR_FORWARD_SLASH, CHAR_BACKSLASH, CHAR_BACKSPACE, CHAR_FORM_FEED,
     CHAR_CARRIAGE_RET, CHAR_NEWLINE, CHAR_TAB}

IsHex(c) ==
    \/ (c >= ASCII_DIGIT_0 /\ c <= ASCII_DIGIT_9)
    \/ (c >= ASCII_UPPER_A /\ c <= ASCII_UPPER_F)
    \/ (c >= ASCII_LOWER_A /\ c <= ASCII_LOWER_F)

\* Faulty variant of HexScan: the characters after \u are not looked at.
HexScan_AnyDigit(s, n, p, i) ==
    IF p + UNICODE_HEX_DIGITS - i < n THEN p + UNICODE_HEX_DIGITS - i ELSE n

\* The loop over the hex digits of \uXXXX from position p with i digits read:
\* the position after the last digit read, or -1 on a character that is not a
\* hex digit.
RECURSIVE HexScan(_, _, _, _)
HexScan(s, n, p, i) ==
    IF i < UNICODE_HEX_DIGITS /\ p < n /\ At(s, p) # CHAR_NULL
    THEN IF IsHex(At(s, p)) THEN HexScan(s, n, p + 1, i + 1) ELSE -1
    ELSE p

\* Faulty variant of StringScan: a backslash is an ordinary character, so an
\* escaped quote closes the string.
RECURSIVE StringScan_NoEscape(_, _, _)
StringScan_NoEscape(s, n, p) ==
    IF ~(p < n /\ At(s, p) # CHAR_NULL)
    THEN [r |-> JSMN_ERROR_PART, pos |-> p]
    ELSE IF At(s, p) = CHAR_QUOTE
    THEN [r |-> 0, pos |-> p]
    ELSE StringScan_NoEscape(s, n, p + 1)

\* The for loop of jsmn_parse_string with the cursor at p: r is 0 and pos the
\* offset of the closing quote, or r is the error.
RECURSIVE StringScan(_, _, _)
StringScan(s, n, p) ==
    IF ~(p < n /\ At(s, p) # CHAR_NULL)
    THEN [r |-> JSMN_ERROR_PART, pos |-> p]
    ELSE IF At(s, p) = CHAR_QUOTE
    THEN [r |-> 0, pos |-> p]
    ELSE IF At(s, p) = CHAR_BACKSLASH /\ p + 1 < n
    THEN IF At(s, p + 1) \in EscapeChars
         THEN StringScan(s, n, p + 2)
         ELSE IF At(s, p + 1) = CHAR_UNICODE
         THEN LET q == HexScan(s, n, p + 2, 0)
              IN IF q = -1 THEN [r |-> JSMN_ERROR_INVAL, pos |-> p]
                 ELSE StringScan(s, n, q)
         ELSE [r |-> JSMN_ERROR_INVAL, pos |-> p]
    ELSE StringScan(s, n, p + 1)

(* ------------------------------------------------------------------ *)
(* jsmn_parse_primitive (src/jsmn.c:127-209): the scan                  *)
(* ------------------------------------------------------------------ *)

\* Faulty variant of PrimitiveEnd: the colon does not end a primitive (the
\* set of the JSMN_STRICT build).
PrimitiveEnd_NoColon ==
    {CHAR_HTAB, CHAR_CR, CHAR_LF, CHAR_SPACE, CHAR_COMMA, CHAR_BRACKET_CLOSE,
     CHAR_BRACE_CLOSE}

\* The characters that end a primitive.
PrimitiveEnd ==
    {CHAR_COLON, CHAR_HTAB, CHAR_CR, CHAR_LF, CHAR_SPACE, CHAR_COMMA,
     CHAR_BRACKET_CLOSE, CHAR_BRACE_CLOSE}

\* The for loop of jsmn_parse_primitive with the cursor at p: r is 0 and pos
\* the offset where the primitive ends, or r is JSMN_ERROR_INVAL.
RECURSIVE PrimitiveScan(_, _, _)
PrimitiveScan(s, n, p) ==
    IF ~(p < n /\ At(s, p) # CHAR_NULL)
    THEN [r |-> 0, pos |-> p]
    ELSE IF At(s, p) \in PrimitiveEnd
    THEN [r |-> 0, pos |-> p]
    ELSE IF At(s, p) < ASCII_PRINTABLE_MIN \/ At(s, p) >= ASCII_PRINTABLE_MAX
    THEN [r |-> JSMN_ERROR_INVAL, pos |-> p]
    ELSE PrimitiveScan(s, n, p + 1)

(* ------------------------------------------------------------------ *)
(* jsmn_parse (src/jsmn.c:342-614)                                      *)
(* ------------------------------------------------------------------ *)

\* The loop condition: (p_parser->pos < len) && (CHAR_NULL != p_js[p_parser->pos])
InLoop ==
    /\ jpc = "scan"
    /\ p_parser.pos < len
    /\ At(p_js, p_parser.pos) # CHAR_NULL

\* return v;
JsmnReturn(v) ==
    /\ jpc' = "done"
    /\ parse_ret' = v

\* Faulty variant of ScanOpen: the scan finds the open token of the lowest
\* index, not the nearest one.
RECURSIVE ScanOpen_Outermost(_, _)
ScanOpen_Outermost(tok, i) ==
    IF i < 0 THEN -1
    ELSE LET below == ScanOpen_Outermost(tok, i - 1)
         IN IF below # -1 THEN below
            ELSE IF IsOpen(tok[i + 1]) THEN i
            ELSE -1

\* Faulty variant of ScanOpen: only the token at index i is looked at.
ScanOpen_TopOnly(tok, i) ==
    IF i < 0 THEN -1
    ELSE IF IsOpen(tok[i + 1]) THEN i
    ELSE -1

\* The backward scan for the nearest open token at index i or below: its
\* index, or -1.
RECURSIVE ScanOpen(_, _)
ScanOpen(tok, i) ==
    IF i < 0 THEN -1
    ELSE IF IsOpen(tok[i + 1]) THEN i
    ELSE ScanOpen(tok, i - 1)

\* Faulty variant of ScanOpenContainer: no container is found.
ScanOpenContainer_None(tok, i) == -1

\* The backward scan of the comma case: the nearest open Object or Array at
\* index i or below, or -1.
RECURSIVE ScanOpenContainer(_, _)
ScanOpenContainer(tok, i) ==
    IF i < 0 THEN -1
    ELSE IF tok[i + 1].type \in {JSMN_ARRAY, JSMN_OBJECT} /\ IsOpen(tok[i + 1]) THEN i
    ELSE ScanOpenContainer(tok, i - 1)

\* case '{': case '[':
JsmnOpen ==
    /\ InLoop
    /\ At(p_js, p_parser.pos) \in {CHAR_BRACE_OPEN, CHAR_BRACKET_OPEN}
    /\ count' = count + 1
    /\ IF p_tokens.null
       THEN /\ p_parser' = [p_parser EXCEPT !.pos = @ + 1]
            /\ UNCHANGED <<jpc, parse_ret, p_tokens>>
       ELSE IF ~CanAlloc
       THEN /\ JsmnReturn(JSMN_ERROR_NOMEM)
            /\ UNCHANGED <<p_parser, p_tokens>>
       ELSE LET k  == p_parser.toknext
                t1 == jsmn_alloc_token(p_tokens.tok, k)
                t2 == IncSize(t1, p_parser.toksuper)
                t3 == [t2 EXCEPT ![k + 1].type =
                                     IF At(p_js, p_parser.pos) = CHAR_BRACE_OPEN
                                     THEN JSMN_OBJECT ELSE JSMN_ARRAY,
                                 ![k + 1].start = p_parser.pos]
            IN /\ p_tokens' = [p_tokens EXCEPT !.tok = t3]
               /\ p_parser' = [pos |-> p_parser.pos + 1, toknext |-> k + 1,
                               toksuper |-> k]
               /\ UNCHANGED <<jpc, parse_ret>>
    /\ UNCHANGED <<p_js, len, num_tokens, doc, uartVars, call, prev, jsonVars>>

\* Faulty variant of CloseMatches: any open token is closed, whatever its kind.
CloseMatches_AnyKind(type, t) == TRUE

\* type == p_token->type, for the nearest open token
CloseMatches(type, t) == type = t.type

\* Faulty variant of JsmnClose: the end of the closed token is the offset of
\* the closer itself.
JsmnClose_EndAtCloser ==
    /\ InLoop
    /\ At(p_js, p_parser.pos) \in {CHAR_BRACE_CLOSE, CHAR_BRACKET_CLOSE}
    /\ ~p_tokens.null
    /\ LET type == IF At(p_js, p_parser.pos) = CHAR_BRACE_CLOSE
                   THEN JSMN_OBJECT ELSE JSMN_ARRAY
           i    == ScanOpen(p_tokens.tok, p_parser.toknext - 1)
       IN /\ i # -1
          /\ CloseMatches(type, p_tokens.tok[i + 1])
          /\ LET t1 == [p_tokens.tok EXCEPT ![i + 1].end = p_parser.pos]
             IN /\ p_tokens' = [p_tokens EXCEPT !.tok = t1]
                /\ p_parser' = [p_parser EXCEPT !.pos = @ + 1,
                                                !.toksuper = ScanOpen(t1, i)]
    /\ UNCHANGED <<jpc, parse_ret, p_js, len, num_tokens, count, doc, uartVars, call, prev, jsonVars>>

\* case '}': case ']':
JsmnClose ==
    /\ InLoop
    /\ At(p_js, p_parser.pos) \in {CHAR_BRACE_CLOSE, CHAR_BRACKET_CLOSE}
    /\ IF p_tokens.null
       THEN /\ p_parser' = [p_parser EXCEPT !.pos = @ + 1]
            /\ UNCHANGED <<jpc, parse_ret, p_tokens>>
       ELSE LET type == IF At(p_js, p_parser.pos) = CHAR_BRACE_CLOSE
                        THEN JSMN_OBJECT ELSE JSMN_ARRAY
                i    == ScanOpen(p_tokens.tok, p_parser.toknext - 1)
            IN IF i = -1
               THEN /\ JsmnReturn(JSMN_ERROR_INVAL)
                    /\ UNCHANGED <<p_parser, p_tokens>>
               ELSE IF ~CloseMatches(type, p_tokens.tok[i + 1])
               THEN /\ JsmnReturn(JSMN_ERROR_INVAL)
                    /\ UNCHANGED <<p_parser, p_tokens>>
               ELSE LET t1 == [p_tokens.tok EXCEPT ![i + 1].end = p_parser.pos + 1]
                    IN /\ p_tokens' = [p_tokens EXCEPT !.tok = t1]
                       /\ p_parser' = [p_parser EXCEPT !.pos = @ + 1,
                                                       !.toksuper = ScanOpen(t1, i)]
                       /\ UNCHANGED <<jpc, parse_ret>>
    /\ UNCHANGED <<p_js, len, num_tokens, count, doc, uartVars, call, prev, jsonVars>>

\* case '\"': jsmn_parse_string, then count++ and the parent's size++
JsmnString ==
    /\ InLoop
    /\ At(p_js, p_parser.pos) = CHAR_QUOTE
    /\ LET start == p_parser.pos
           s     == StringScan(p_js, len, start + 1)
           k     == p_parser.toknext
       IN IF s.r < 0
          THEN /\ JsmnReturn(s.r)
               /\ UNCHANGED <<p_parser, p_tokens, count>>
          ELSE IF p_tokens.null
          THEN /\ p_parser' = [p_parser EXCEPT !.pos = s.pos + 1]
               /\ count' = count + 1
               /\ UNCHANGED <<jpc, parse_ret, p_tokens>>
          ELSE IF ~CanAlloc
          THEN /\ JsmnReturn(JSMN_ERROR_NOMEM)
               /\ UNCHANGED <<p_parser, p_tokens, count>>
          ELSE /\ p_tokens' =
                      [p_tokens EXCEPT !.tok =
                          IncSize(jsmn_fill_token(jsmn_alloc_token(@, k), k, JSMN_STRING,
                                                  start + 1, s.pos),
                                  p_parser.toksuper)]
               /\ p_parser' = [p_parser EXCEPT !.pos = s.pos + 1, !.toknext = k + 1]
               /\ count' = count + 1
               /\ UNCHANGED <<jpc, parse_ret>>
    /\ UNCHANGED <<p_js, len, num_tokens, doc, uartVars, call, prev, jsonVars>>

\* case '\t': case '\r': case '\n': case ' ':
JsmnSpace ==
    /\ InLoop
    /\ At(p_js, p_parser.pos) \in {CHAR_HTAB, CHAR_CR, CHAR_LF, CHAR_SPACE}
    /\ p_parser' = [p_parser EXCEPT !.pos = @ + 1]
    /\ UNCHANGED <<jpc, p_js, len, p_tokens, num_tokens, count, parse_ret, doc,
                   uartVars, call, prev, jsonVars>>

\* case ':': toksuper = toknext - 1
JsmnColon ==
    /\ InLoop
    /\ At(p_js, p_parser.pos) = CHAR_COLON
    /\ p_parser' = [p_parser EXCEPT !.pos = @ + 1, !.toksuper = p_parser.toknext - 1]
    /\ UNCHANGED <<jpc, p_js, len, p_tokens, num_tokens, count, parse_ret, doc,
                   uartVars, call, prev, jsonVars>>

\* case ',': when the cursor is on a key or a value, back to the nearest open
\* container
JsmnComma ==
    /\ InLoop
    /\ At(p_js, p_parser.pos) = CHAR_COMMA
    /\ LET sup == p_parser.toksuper
           i   == ScanOpenContainer(p_tokens.tok, p_parser.toknext - 1)
       IN IF /\ ~p_tokens.null
             /\ sup # -1
             /\ p_tokens.tok[sup + 1].type # JSMN_ARRAY
             /\ p_tokens.tok[sup + 1].type # JSMN_OBJECT
             /\ i # -1
          THEN p_parser' = [p_parser EXCEPT !.pos = @ + 1, !.toksuper = i]
          ELSE p_parser' = [p_parser EXCEPT !.pos = @ + 1]
    /\ UNCHANGED <<jpc, p_js, len, p_tokens, num_tokens, count, parse_ret, doc,
                   uartVars, call, prev, jsonVars>>

\* The characters with a case of their own.
CasedChars ==
    {CHAR_BRACE_OPEN, CHAR_BRACKET_OPEN, CHAR_BRACE_CLOSE, CHAR_BRACKET_CLOSE,
     CHAR_QUOTE, CHAR_HTAB, CHAR_CR, CHAR_LF, CHAR_SPACE, CHAR_COLON, CHAR_COMMA}

\* default: jsmn_parse_primitive, then count++ and the parent's size++
JsmnPrimitive ==
    /\ InLoop
    /\ At(p_js, p_parser.pos) \notin CasedChars
    /\ LET start == p_parser.pos
           s     == PrimitiveScan(p_js, len, start)
           k     == p_parser.toknext
       IN IF s.r < 0
          THEN /\ JsmnReturn(s.r)
               /\ UNCHANGED <<p_parser, p_tokens, count>>
          ELSE IF p_tokens.null
          THEN /\ p_parser' = [p_parser EXCEPT !.pos = s.pos]
               /\ count' = count + 1
               /\ UNCHANGED <<jpc, parse_ret, p_tokens>>
          ELSE IF ~CanAlloc
          THEN /\ JsmnReturn(JSMN_ERROR_NOMEM)
               /\ UNCHANGED <<p_parser, p_tokens, count>>
          ELSE /\ p_tokens' =
                      [p_tokens EXCEPT !.tok =
                          IncSize(jsmn_fill_token(jsmn_alloc_token(@, k), k,
                                                  JSMN_PRIMITIVE, start, s.pos),
                                  p_parser.toksuper)]
               /\ p_parser' = [p_parser EXCEPT !.pos = s.pos, !.toknext = k + 1]
               /\ count' = count + 1
               /\ UNCHANGED <<jpc, parse_ret>>
    /\ UNCHANGED <<p_js, len, num_tokens, doc, uartVars, call, prev, jsonVars>>

\* Faulty variant of JsmnFinish: the number of allocated tokens is returned,
\* which stays 0 without a token array.
JsmnFinish_ReturnsToknext ==
    /\ jpc = "scan"
    /\ ~InLoop
    /\ IF ~p_tokens.null /\ ScanOpen(p_tokens.tok, p_parser.toknext - 1) # -1
       THEN JsmnReturn(JSMN_ERROR_PART)
       ELSE JsmnReturn(p_parser.toknext)
    /\ UNCHANGED <<p_js, len, p_tokens, num_tokens, p_parser, count, doc, uartVars, call, prev, jsonVars>>

\* Faulty variant of JsmnFinish: the count is returned without the scan for
\* unterminated tokens.
JsmnFinish_NoScan ==
    /\ jpc = "scan"
    /\ ~InLoop
    /\ JsmnReturn(count)
    /\ UNCHANGED <<p_js, len, p_tokens, num_tokens, p_parser, count, doc, uartVars, call, prev, jsonVars>>

\* After the loop: JSMN_ERROR_PART if an allocated token is still open, else
\* the count.
JsmnFinish ==
    /\ jpc = "scan"
    /\ ~InLoop
    /\ IF ~p_tokens.null /\ ScanOpen(p_tokens.tok, p_parser.toknext - 1) # -1
       THEN JsmnReturn(JSMN_ERROR_PART)
       ELSE JsmnReturn(count)
    /\ UNCHANGED <<p_js, len, p_tokens, num_tokens, p_parser, count, doc, uartVars, call, prev, jsonVars>>

jsmn_parse ==
    \/ JsmnOpen
    \/ JsmnClose
    \/ JsmnString
    \/ JsmnSpace
    \/ JsmnColon
    \/ JsmnComma
    \/ JsmnPrimitive
    \/ JsmnFinish

(* ------------------------------------------------------------------ *)
(* Inputs of the tokenizer                                              *)
(* ------------------------------------------------------------------ *)

\* Longest raw buffer.
MaxInputLen == 5

\* Most tokens of a generated document.
MaxDocTokens == 5

\* The characters of the raw buffers: { } [ ] " : , space and the digit 1.
RawChars ==
    {CHAR_BRACE_OPEN, CHAR_BRACE_CLOSE, CHAR_BRACKET_OPEN, CHAR_BRACKET_CLOSE,
     CHAR_QUOTE, CHAR_COLON, CHAR_COMMA, CHAR_SPACE, 49}

RawBuffers == UNION { [1..n -> RawChars] : n \in 0..MaxInputLen }

\* Documents: a primitive (written 1), a string (written "a"), an array of
\* documents, an object whose values are documents (every key written "k").
Leaf(kind) == [kind |-> kind, kids |-> <<>>]

RECURSIVE DocsOf(_), DocLists(_, _)
\* The documents that parse_ret counts as n tokens.
DocsOf(n) ==
    IF n < 1 THEN {}
    ELSE (IF n = 1 THEN {Leaf("prim"), Leaf("str")} ELSE {})
         \cup { [kind |-> "arr", kids |-> s] : s \in DocLists(n - 1, 0) }
         \cup { [kind |-> "obj", kids |-> s] : s \in DocLists(n - 1, 1) }

\* The lists of documents of n tokens in all, each with `extra` more tokens
\* (the key of a member).
DocLists(n, extra) ==
    IF n = 0 THEN {<<>>}
    ELSE UNION { { <<d>> \o rest : d \in DocsOf(k - extra), rest \in DocLists(n - k, extra) }
                 : k \in 1..n }

Docs == UNION { DocsOf(n) : n \in 1..MaxDocTokens }

RECURSIVE TokenCount(_), SumCount(_, _)
TokenCount(d) ==
    IF d.kind \in {"prim", "str"} THEN 1
    ELSE 1 + SumCount(d.kids, IF d.kind = "obj" THEN 1 ELSE 0)

SumCount(s, extra) ==
    IF s = <<>> THEN 0 ELSE extra + TokenCount(Head(s)) + SumCount(Tail(s), extra)

\* The text of a document; with sp, a space follows every ':' and ','.
RECURSIVE Render(_, _), RenderList(_, _, _)
Render(d, sp) ==
    CASE d.kind = "prim" -> <<49>>
      [] d.kind = "str"  -> <<CHAR_QUOTE, 97, CHAR_QUOTE>>
      [] d.kind = "arr"  -> <<CHAR_BRACKET_OPEN>> \o RenderList(d.kids, FALSE, sp)
                                \o <<CHAR_BRACKET_CLOSE>>
      [] d.kind = "obj"  -> <<CHAR_BRACE_OPEN>> \o RenderList(d.kids, TRUE, sp)
                                \o <<CHAR_BRACE_CLOSE>>

RenderList(s, keyed, sp) ==
    IF s = <<>> THEN <<>>
    ELSE (IF keyed
          THEN <<CHAR_QUOTE, 107, CHAR_QUOTE, CHAR_COLON>>
                   \o (IF sp THEN <<CHAR_SPACE>> ELSE <<>>)
          ELSE <<>>)
         \o Render(Head(s), sp)
         \o (IF Tail(s) = <<>> THEN <<>>
             ELSE <<CHAR_COMMA>> \o (IF sp THEN <<CHAR_SPACE>> ELSE <<>>))
         \o RenderList(Tail(s), keyed, sp)

\* A fresh call jsmn_init(&parser); jsmn_parse(&parser, js, strlen(js), tokens, n)
FreshParse(js, tokens, n) ==
    /\ call = "first"
    /\ prev = NoPrev
    /\ jpc = "scan"
    /\ p_js = js
    /\ len = Len(js)
    /\ p_tokens = tokens
    /\ num_tokens = n
    /\ p_parser = jsmn_init
    /\ count = 0
    /\ parse_ret = 0

\* Every raw buffer, with a token array that cannot run out.
InitRaw ==
    /\ DriverIdle
    /\ JsonUnused
    /\ doc = NoDoc
    /\ \E js \in RawBuffers : FreshParse(js, TokenArray(MaxInputLen), MaxInputLen)

NextJsmn == jsmn_parse

SpecRaw == InitRaw /\ [][NextJsmn]_vars

\* Every document, plain and spaced, with every capacity up to MaxDocTokens
\* and with a NULL token array.
InitDocs ==
    /\ DriverIdle
    /\ JsonUnused
    /\ doc \in Docs
    /\ \E sp \in BOOLEAN :
          \/ \E n \in 0..MaxDocTokens : FreshParse(Render(doc, sp), TokenArray(n), n)
          \/ FreshParse(Render(doc, sp), NoTokens, 0)

SpecDocs == InitDocs /\ [][NextJsmn]_vars

(* ------------------------------------------------------------------ *)
(* Properties of the tokenizer                                          *)
(* ------------------------------------------------------------------ *)

\* C16: for every well-formed object whose token count does not exceed the
\* capacity, jsmn_parse on a fresh parser returns a count >= 1, token 0 is an
\* Object and its end is set.
C16_ObjectParses ==
    ( /\ jpc = "done"
      /\ doc.kind = "obj"
      /\ ~p_tokens.null
      /\ TokenCount(doc) <= num_tokens )
    => /\ parse_ret >= 1
       /\ p_tokens.tok[1].type = JSMN_OBJECT
       /\ p_tokens.tok[1].end # -1

\* C16 witness: a spaced object with two members, one of them a container, was
\* parsed into 5 tokens.
C16_Witness ==
    /\ jpc = "done"
    /\ doc.kind = "obj"
    /\ Len(doc.kids) = 2
    /\ doc.kids[1].kind = "arr"
    /\ CHAR_SPACE \in {p_js[i] : i \in 1..Len(p_js)}
    /\ ~p_tokens.null
    /\ parse_ret = 5
    /\ p_tokens.tok[1].type = JSMN_OBJECT
    /\ p_tokens.tok[1].end = Len(p_js)

\* The brackets of a buffer as the tokenizer reads them - outside string
\* literals and outside primitives, which run up to the next delimiter - kept
\* on a stack of open containers: "balanced", "open" (every closer matched,
\* an opener left unclosed), "excess_closer" (a closer with nothing open) or
\* "mismatch" (a closer of the other kind than the innermost open container).
\* mode is "out", "str" (inside a string) or "prim" (inside a primitive).
RECURSIVE Brackets(_, _, _, _)
Brackets(s, i, stack, mode) ==
    IF i > Len(s) THEN (IF stack = <<>> THEN "balanced" ELSE "open")
    ELSE IF mode = "str"
    THEN Brackets(s, i + 1, stack, IF s[i] = CHAR_QUOTE THEN "out" ELSE "str")
    ELSE IF mode = "prim" /\ s[i] \notin PrimitiveEnd
    THEN Brackets(s, i + 1, stack, "prim")
    ELSE IF s[i] = CHAR_QUOTE THEN Brackets(s, i + 1, stack, "str")
    ELSE IF s[i] \in {CHAR_BRACE_OPEN, CHAR_BRACKET_OPEN}
    THEN Brackets(s, i + 1, <<s[i]>> \o stack, "out")
    ELSE IF s[i] \in {CHAR_BRACE_CLOSE, CHAR_BRACKET_CLOSE}
    THEN IF stack = <<>> THEN "excess_closer"
         ELSE IF (s[i] = CHAR_BRACE_CLOSE) # (Head(stack) = CHAR_BRACE_OPEN)
         THEN "mismatch"
         ELSE Brackets(s, i + 1, Tail(stack), "out")
    ELSE IF s[i] \in CasedChars THEN Brackets(s, i + 1, stack, "out")
    ELSE Brackets(s, i + 1, stack, "prim")

\* C17 as stated: every buffer with unbalanced brackets, whichever side is in
\* excess, makes jsmn_parse (non-NULL token array, sufficient capacity) return
\* JSMN_ERROR_PART.
C17_UnbalancedIsIncomplete ==
    ( /\ jpc = "done"
      /\ ~p_tokens.null
      /\ Brackets(p_js, 1, <<>>, "out") \in {"open", "excess_closer"} )
    => parse_ret = JSMN_ERROR_PART

\* C17 amended: brackets count where the tokenizer reads them, outside string
\* literals and primitives.  A buffer whose closers all match but which
\* leaves an opener unclosed returns JSMN_ERROR_PART; a buffer whose first
\* bracket fault is a closer with nothing open returns JSMN_ERROR_INVAL.
C17_OpenIsIncomplete ==
    ( /\ jpc = "done"
      /\ ~p_tokens.null )
    => /\ Brackets(p_js, 1, <<>>, "out") = "open" => parse_ret = JSMN_ERROR_PART
       /\ Brackets(p_js, 1, <<>>, "out") = "excess_closer"
              => parse_ret = JSMN_ERROR_INVAL

\* C17 witness: "[{}" - the inner object closed, the array left open.
C17_Witness ==
    /\ jpc = "done"
    /\ p_js = <<CHAR_BRACKET_OPEN, CHAR_BRACE_OPEN, CHAR_BRACE_CLOSE>>
    /\ p_tokens.tok[2].end = 3
    /\ p_tokens.tok[1].end = -1
    /\ parse_ret = JSMN_ERROR_PART

\* The indices of the allocated tokens that are still open.
OpenTokens == { i \in 0..(p_parser.toknext - 1) : IsOpen(p_tokens.tok[i + 1]) }

\* The greatest element of a non-empty set of integers.
Greatest(S) == CHOOSE x \in S : \A y \in S : y <= x

\* C18: with a non-NULL token array, a closing '}' or ']' whose nearest open
\* token is of the other kind, or for which no token is open, makes jsmn_parse
\* return JSMN_ERROR_INVAL with every token and toksuper as they were.
C18_MismatchedCloser ==
    [][ ( /\ InLoop
          /\ ~p_tokens.null
          /\ At(p_js, p_parser.pos) \in {CHAR_BRACE_CLOSE, CHAR_BRACKET_CLOSE}
          /\ \/ OpenTokens = {}
             \/ (At(p_js, p_parser.pos) = CHAR_BRACE_CLOSE)
                    # (p_tokens.tok[Greatest(OpenTokens) + 1].type = JSMN_OBJECT) )
        => /\ jpc' = "done"
           /\ parse_ret' = JSMN_ERROR_INVAL
           /\ p_tokens' = p_tokens
           /\ p_parser'.toksuper = p_parser.toksuper ]_vars

\* C18 witness: "{1]" stopped at the ']' with the object still open.
C18_Witness ==
    /\ jpc = "done"
    /\ p_js = <<CHAR_BRACE_OPEN, 49, CHAR_BRACKET_CLOSE>>
    /\ parse_ret = JSMN_ERROR_INVAL
    /\ p_parser.pos = 2
    /\ p_tokens.tok[1].end = -1
    /\ p_parser.toksuper = 0

\* C19: when the scan reaches the end of the buffer and an allocated Object or
\* Array token still has its end unset, jsmn_parse returns JSMN_ERROR_PART.
C19_UnterminatedIsIncomplete ==
    [][ ( /\ jpc = "scan"
          /\ ~InLoop
          /\ ~p_tokens.null
          /\ \E i \in 1..p_parser.toknext :
                /\ p_tokens.tok[i].type \in {JSMN_OBJECT, JSMN_ARRAY}
                /\ p_tokens.tok[i].end = -1 )
        => /\ jpc' = "done"
           /\ parse_ret' = JSMN_ERROR_PART ]_vars

\* C19 witness: {"":1 (the closing brace missing) ended with three tokens and
\* JSMN_ERROR_PART.
C19_Witness ==
    /\ jpc = "done"
    /\ p_js = <<CHAR_BRACE_OPEN, CHAR_QUOTE, CHAR_QUOTE, CHAR_COLON, 49>>
    /\ p_parser.pos = 5
    /\ p_parser.toknext = 3
    /\ parse_ret = JSMN_ERROR_PART

\* The types and sizes a document's tokens must have, in document order: a
\* container with its number of members, each key with size 1 right before
\* its value.
RECURSIVE Shape(_), ShapeList(_, _)
Shape(d) ==
    CASE d.kind = "prim" -> << <<JSMN_PRIMITIVE, 0>> >>
      [] d.kind = "str"  -> << <<JSMN_STRING, 0>> >>
      [] d.kind = "arr"  -> << <<JSMN_ARRAY, Len(d.kids)>> >> \o ShapeList(d.kids, FALSE)
      [] d.kind = "obj"  -> << <<JSMN_OBJECT, Len(d.kids)>> >> \o ShapeList(d.kids, TRUE)

ShapeList(s, keyed) ==
    IF s = <<>> THEN <<>>
    ELSE (IF keyed THEN << <<JSMN_STRING, 1>> >> ELSE <<>>)
         \o Shape(Head(s)) \o ShapeList(Tail(s), keyed)

\* C20: after a successful parse of a well-formed document every container's
\* size is its number of immediate children (keys of an Object, elements of
\* an Array), every key has size 1 and is immediately followed by its value.
C20_SizesCountChildren ==
    ( /\ jpc = "done"
      /\ doc # NoDoc
      /\ ~p_tokens.null
      /\ parse_ret >= 0 )
    => /\ parse_ret = Len(Shape(doc))
       /\ \A i \in 1..parse_ret :
             <<p_tokens.tok[i].type, p_tokens.tok[i].size>> = Shape(doc)[i]

\* C20 witness: {"k":[],"k":1} - a comma after a nested container: the object
\* has size 2, each key size 1, the array size 0.
C20_Witness ==
    /\ jpc = "done"
    /\ doc = [kind |-> "obj", kids |-> << Leaf("arr"), Leaf("prim") >>]
    /\ parse_ret = 5
    /\ p_tokens.tok[1].size = 2
    /\ p_tokens.tok[2].size = 1
    /\ p_tokens.tok[3].type = JSMN_ARRAY
    /\ p_tokens.tok[3].size = 0
    /\ p_tokens.tok[4].size = 1
    /\ p_tokens.tok[5].type = JSMN_PRIMITIVE

\* The offset of the closer that matches the opener before offset i, with
\* depth openers pending (buffers written from a document: their strings and
\* primitives hold no bracket).
RECURSIVE MatchingCloser(_, _, _)
MatchingCloser(s, i, depth) ==
    IF At(s, i) \in {CHAR_BRACE_OPEN, CHAR_BRACKET_OPEN}
    THEN MatchingCloser(s, i + 1, depth + 1)
    ELSE IF At(s, i) \in {CHAR_BRACE_CLOSE, CHAR_BRACKET_CLOSE}
    THEN IF depth = 1 THEN i ELSE MatchingCloser(s, i + 1, depth - 1)
    ELSE MatchingCloser(s, i + 1, depth)

\* C21: after a successful parse every Object or Array token starts at the
\* offset of its opening delimiter and ends one past the offset of the
\* matching closing delimiter; the input {} gives one token, an Object of
\* size 0 with start 0 and end 2.
C21_ContainerSpans ==
    ( /\ jpc = "done"
      /\ doc # NoDoc
      /\ ~p_tokens.null
      /\ parse_ret >= 0 )
    => /\ \A i \in 1..parse_ret :
             LET t == p_tokens.tok[i]
             IN t.type \in {JSMN_OBJECT, JSMN_ARRAY}
                => /\ t.start \in 0..(len - 1)
                   /\ At(p_js, t.start) = (IF t.type = JSMN_OBJECT
                                           THEN CHAR_BRACE_OPEN ELSE CHAR_BRACKET_OPEN)
                   /\ t.end = MatchingCloser(p_js, t.start + 1, 1) + 1
                   /\ At(p_js, t.end - 1) = (IF t.type = JSMN_OBJECT
                                             THEN CHAR_BRACE_CLOSE ELSE CHAR_BRACKET_CLOSE)
       /\ p_js = <<CHAR_BRACE_OPEN, CHAR_BRACE_CLOSE>>
             => /\ parse_ret = 1
                /\ p_tokens.tok[1] = [type |-> JSMN_OBJECT, start |-> 0, end |-> 2,
                                      size |-> 0]

\* C21 witness: [[],{}] - the outer array spans the buffer, the inner array
\* 1..3 and the object 4..6.
C21_Witness ==
    /\ jpc = "done"
    /\ doc = [kind |-> "arr", kids |-> << Leaf("arr"), Leaf("obj") >>]
    /\ len = 7
    /\ parse_ret = 3
    /\ <<p_tokens.tok[1].start, p_tokens.tok[1].end>> = <<0, 7>>
    /\ <<p_tokens.tok[2].start, p_tokens.tok[2].end>> = <<1, 3>>
    /\ <<p_tokens.tok[3].start, p_tokens.tok[3].end>> = <<4, 6>>

(* ------------------------------------------------------------------ *)
(* Repeated calls of the tokenizer                                      *)
(* ------------------------------------------------------------------ *)

\* Longest raw buffer of the specifications that call jsmn_parse more than
\* once.
MaxRerunLen == 4

RerunBuffers == UNION { [1..n -> RawChars] : n \in 0..MaxRerunLen }

\* jsmn_init(&parser) and the entry of jsmn_parse(&parser, p_js, n, tokens,
\* cap): count = toknext.
ParseFromInit(n, tokens, cap) ==
    /\ p_parser' = jsmn_init
    /\ count' = 0
    /\ jpc' = "scan"
    /\ parse_ret' = 0
    /\ len' = n
    /\ p_tokens' = tokens
    /\ num_tokens' = cap

\* What the first call returned and left in the token array.
Remember == prev' = [ret |-> parse_ret, tokens |-> p_tokens]

\* The first call has returned: jsmn_init and jsmn_parse once more with the
\* same buffer, length and capacity, the token array as the first call left it.
ParseAgain ==
    /\ jpc = "done"
    /\ call = "first"
    /\ call' = "again"
    /\ Remember
    /\ ParseFromInit(len, p_tokens, num_tokens)
    /\ UNCHANGED <<p_js, doc, uartVars, jsonVars>>

\* Every raw buffer, with a token array that runs out at the second token and
\* with one that cannot run out.
InitAgain ==
    /\ DriverIdle
    /\ JsonUnused
    /\ doc = NoDoc
    /\ \E js \in RerunBuffers, n \in {1, MaxRerunLen} : FreshParse(js, TokenArray(n), n)

NextAgain == jsmn_parse \/ ParseAgain

SpecAgain == InitAgain /\ [][NextAgain]_vars

\* C22: jsmn_init and jsmn_parse run a second time on the same buffer, length
\* and capacity, the token array still holding the results of the first run,
\* return the same value and leave the same token array.
C22_Idempotent ==
    (jpc = "done" /\ call = "again")
    => /\ parse_ret = prev.ret
       /\ p_tokens = prev.tokens

\* C22 witness: [[]] parsed twice, the second time over the two tokens of the
\* first run, into an outer array of size 1 and an inner one of size 0.
C22_Witness ==
    /\ jpc = "done"
    /\ call = "again"
    /\ p_js = <<CHAR_BRACKET_OPEN, CHAR_BRACKET_OPEN, CHAR_BRACKET_CLOSE, CHAR_BRACKET_CLOSE>>
    /\ num_tokens = MaxRerunLen
    /\ prev.ret = 2
    /\ prev.tokens.tok[1].size = 1
    /\ parse_ret = 2
    /\ p_tokens.tok[1].size = 1
    /\ p_tokens.tok[2].size = 0

(* ------------------------------------------------------------------ *)
(* Strings with escapes                                                 *)
(* ------------------------------------------------------------------ *)

\* Most characters after the opening quote.
MaxEscLen == 7

\* The characters after the opening quote: a quote, a backslash, u and the
\* hex digit 1.  \" and \\ are allowed escapes, \1 is not, u is not a hex
\* digit.
EscChars == {CHAR_QUOTE, CHAR_BACKSLASH, CHAR_UNICODE, 49}

EscBodies == UNION { [1..n -> EscChars] : n \in 0..MaxEscLen }

\* Where the string stands: alone, as the value of a key ({"k": ... }) or as
\* an array element after a primitive ([1, ... ]).
StringContexts ==
    { << <<>>, <<>> >>,
      << <<CHAR_BRACE_OPEN, CHAR_QUOTE, 107, CHAR_QUOTE, CHAR_COLON, CHAR_SPACE>>,
         <<CHAR_BRACE_CLOSE>> >>,
      << <<CHAR_BRACKET_OPEN, 49, CHAR_COMMA, CHAR_SPACE>>, <<CHAR_BRACKET_CLOSE>> >> }

EscBuffers ==
    { c[1] \o <<CHAR_QUOTE>> \o b \o c[2] : c \in StringContexts, b \in EscBodies }

InitStr ==
    /\ DriverIdle
    /\ JsonUnused
    /\ doc = NoDoc
    /\ \E js \in EscBuffers : FreshParse(js, TokenArray(Len(js)), Len(js))

SpecStr == InitStr /\ [][NextJsmn]_vars

\* The offset of the first quote at or after offset i that no backslash
\* escapes, or n if there is none.
RECURSIVE ClosingQuote(_, _, _)
ClosingQuote(s, n, i) ==
    IF i >= n THEN n
    ELSE IF At(s, i) = CHAR_BACKSLASH THEN ClosingQuote(s, n, i + 2)
    ELSE IF At(s, i) = CHAR_QUOTE THEN i
    ELSE ClosingQuote(s, n, i + 1)

\* C23: every String token of a successful parse lies between its quotes:
\* p_js[start - 1] and p_js[end] are quotes, and end is the first quote after
\* start that no backslash escapes, so the token holds the bytes between the
\* quotes with the escape sequences as written.
C23_StringSpans ==
    ( /\ jpc = "done"
      /\ ~p_tokens.null
      /\ parse_ret >= 0 )
    => \A i \in 1..parse_ret :
          LET t == p_tokens.tok[i]
          IN t.type = JSMN_STRING
             => /\ t.start >= 1
                /\ t.end < len
                /\ At(p_js, t.start - 1) = CHAR_QUOTE
                /\ At(p_js, t.end) = CHAR_QUOTE
                /\ t.end = ClosingQuote(p_js, len, t.start)

\* C23 witness: {"k": "\"1"} - the value token holds \"1, the escaped quote
\* included.
C23_Witness ==
    /\ jpc = "done"
    /\ p_js = <<CHAR_BRACE_OPEN, CHAR_QUOTE, 107, CHAR_QUOTE, CHAR_COLON, CHAR_SPACE,
                CHAR_QUOTE, CHAR_BACKSLASH, CHAR_QUOTE, 49, CHAR_QUOTE, CHAR_BRACE_CLOSE>>
    /\ parse_ret = 3
    /\ p_tokens.tok[3].type = JSMN_STRING
    /\ p_tokens.tok[3].start = 7
    /\ p_tokens.tok[3].end = 10

(* ------------------------------------------------------------------ *)
(* Dry run and capacity                                                 *)
(* ------------------------------------------------------------------ *)

\* The first call has returned: jsmn_init and jsmn_parse on the same buffer
\* with a NULL token array.
ParseDry ==
    /\ jpc = "done"
    /\ call = "first"
    /\ call' = "dry"
    /\ Remember
    /\ ParseFromInit(len, NoTokens, 0)
    /\ UNCHANGED <<p_js, doc, uartVars, jsonVars>>

\* The dry run has returned a count: jsmn_init and jsmn_parse on the same
\* buffer with a token array of that capacity.
ParseSized ==
    /\ jpc = "done"
    /\ call = "dry"
    /\ parse_ret >= 0
    /\ call' = "sized"
    /\ ParseFromInit(len, TokenArray(parse_ret), parse_ret)
    /\ UNCHANGED <<p_js, doc, prev, uartVars, jsonVars>>

\* Every raw buffer, first with a token array that cannot run out.
InitDry ==
    /\ DriverIdle
    /\ JsonUnused
    /\ doc = NoDoc
    /\ \E js \in RerunBuffers : FreshParse(js, TokenArray(MaxRerunLen), MaxRerunLen)

NextDry == jsmn_parse \/ ParseDry \/ ParseSized

SpecDry == InitDry /\ [][NextDry]_vars

\* C24: when jsmn_parse with a token array of sufficient capacity succeeds
\* with count n, a fresh jsmn_parse with a NULL token array returns n as well
\* and allocates no token, and a fresh jsmn_parse with an array of the
\* capacity the dry run returned succeeds with n.
C24_DryRunCounts ==
    /\ (jpc = "done" /\ call = "dry" /\ prev.ret >= 0)
          => /\ parse_ret = prev.ret
             /\ p_tokens = NoTokens
             /\ p_parser.toknext = 0
    /\ (jpc = "done" /\ call = "sized" /\ prev.ret >= 0)
          => /\ num_tokens = prev.ret
             /\ parse_ret = prev.ret

\* C24 witness: [1] counted as 2 tokens by the dry run and then parsed into an
\* array of capacity 2.
C24_Witness ==
    /\ jpc = "done"
    /\ call = "sized"
    /\ p_js = <<CHAR_BRACKET_OPEN, 49, CHAR_BRACKET_CLOSE>>
    /\ prev.ret = 2
    /\ num_tokens = 2
    /\ parse_ret = 2
    /\ p_tokens.tok[2].type = JSMN_PRIMITIVE

\* C25: a fresh jsmn_parse of a well-formed input of n tokens with a non-NULL
\* token array of capacity c returns JSMN_ERROR_NOMEM when c < n and n when
\* c >= n.
C25_NoMemoryBelowCount ==
    ( /\ jpc = "done"
      /\ doc # NoDoc
      /\ ~p_tokens.null )
    => IF num_tokens < TokenCount(doc)
       THEN parse_ret = JSMN_ERROR_NOMEM
       ELSE parse_ret = TokenCount(doc)

\* C25 witness: {"k":[1]} has 4 tokens; with capacity 3 the call stopped at
\* the primitive with JSMN_ERROR_NOMEM.
C25_Witness ==
    /\ jpc = "done"
    /\ doc = [kind |-> "obj", kids |-> << [kind |-> "arr", kids |-> <<Leaf("prim")>>] >>]
    /\ num_tokens = 3
    /\ p_parser.toknext = 3
    /\ parse_ret = JSMN_ERROR_NOMEM
    /\ At(p_js, p_parser.pos) = 49

(* ------------------------------------------------------------------ *)
(* Chunked re-entry                                                     *)
(* ------------------------------------------------------------------ *)

\* The parse of the whole buffer has returned: jsmn_init and jsmn_parse on its
\* first k bytes, with a token array of its own.
ParsePrefix ==
    /\ jpc = "done"
    /\ call = "first"
    /\ call' = "prefix"
    /\ Remember
    /\ \E k \in 0..(Len(p_js) - 1) :
          ParseFromInit(k, TokenArray(MaxRerunLen), MaxRerunLen)
    /\ UNCHANGED <<p_js, doc, uartVars, jsonVars>>

\* The call on the first k bytes has returned JSMN_ERROR_PART: jsmn_parse
\* again with the same parser and token array, now on the whole buffer.
ParseResume ==
    /\ jpc = "done"
    /\ call = "prefix"
    /\ parse_ret = JSMN_ERROR_PART
    /\ call' = "resume"
    /\ jpc' = "scan"
    /\ count' = p_parser.toknext
    /\ parse_ret' = 0
    /\ len' = Len(p_js)
    /\ UNCHANGED <<p_js, p_tokens, num_tokens, p_parser, doc, prev, uartVars, jsonVars>>

NextChunk == jsmn_parse \/ ParsePrefix \/ ParseResume

SpecChunk == InitDry /\ [][NextChunk]_vars

\* C26: when jsmn_parse on the first k bytes of a buffer returned
\* JSMN_ERROR_PART, jsmn_parse re-invoked with the same parser and token array
\* on the whole buffer returns what a fresh parse of the whole buffer returns
\* and leaves the same token array.
C26_ChunkedReentry ==
    (jpc = "done" /\ call = "resume")
    => /\ parse_ret = prev.ret
       /\ p_tokens = prev.tokens

\* What becomes of the string whose characters start at offset p, read
\* escape by escape: "closed" by a quote, "bad_escape" (a backslash followed
\* by a character that is neither an allowed escape character nor u),
\* "bad_hex" (\u followed by four characters, one of them no hex digit),
\* "cut" (the buffer ends before the closing quote, possibly inside an escape
\* or inside hex digits) or "short" (\u followed by fewer than four
\* characters, one of them no hex digit).
RECURSIVE StringFate(_, _, _)
StringFate(s, n, p) ==
    IF p >= n THEN "cut"
    ELSE IF At(s, p) = CHAR_QUOTE THEN "closed"
    ELSE IF At(s, p) # CHAR_BACKSLASH THEN StringFate(s, n, p + 1)
    ELSE IF p + 1 >= n THEN "cut"
    ELSE IF At(s, p + 1) \in EscapeChars THEN StringFate(s, n, p + 2)
    ELSE IF At(s, p + 1) # CHAR_UNICODE THEN "bad_escape"
    ELSE IF p + 1 + UNICODE_HEX_DIGITS < n
    THEN IF \A j \in 1..UNICODE_HEX_DIGITS : IsHex(At(s, p + 1 + j))
         THEN StringFate(s, n, p + 2 + UNICODE_HEX_DIGITS)
         ELSE "bad_hex"
    ELSE IF \A j \in (p + 2)..(n - 1) : IsHex(At(s, j)) THEN "cut"
    ELSE "short"

MaxPrimLen == 4

\* The last printable character '~' (126), the control character 31 and DEL
\* (127), the eight delimiters, and '{' and '"', which a primitive runs over.
PrimChars ==
    {ASCII_PRINTABLE_MAX - 1, ASCII_PRINTABLE_MIN - 1, ASCII_PRINTABLE_MAX,
     CHAR_COLON, CHAR_SPACE, CHAR_HTAB, CHAR_CR, CHAR_LF, CHAR_COMMA,
     CHAR_BRACE_CLOSE, CHAR_BRACKET_CLOSE, CHAR_BRACE_OPEN, CHAR_QUOTE}

PrimBuffers == UNION { [1..n -> PrimChars] : n \in 0..MaxPrimLen }

InitPrim ==
    /\ DriverIdle
    /\ JsonUnused
    /\ doc = NoDoc
    /\ \E js \in PrimBuffers : FreshParse(js, TokenArray(MaxPrimLen), MaxPrimLen)

SpecPrim == InitPrim /\ [][NextJsmn]_vars

\* The offset of the first colon, space, tab, CR, LF, comma, '}' or ']' at or
\* after offset i, or n if there is none.
RECURSIVE FirstDelimiter(_, _, _)
FirstDelimiter(s, n, i) ==
    IF i >= n THEN n
    ELSE IF At(s, i) \in {CHAR_COLON, CHAR_SPACE, CHAR_HTAB, CHAR_CR, CHAR_LF,
                          CHAR_COMMA, CHAR_BRACE_CLOSE, CHAR_BRACKET_CLOSE}
    THEN i
    ELSE FirstDelimiter(s, n, i + 1)

\* C28: a primitive runs from its first character up to, not including, the
\* first following delimiter or the end of the buffer; if one of its
\* characters lies outside [32,127) jsmn_parse returns JSMN_ERROR_INVAL,
\* otherwise the token is a Primitive with these offsets and the scan goes on
\* at the delimiter.
C28_PrimitiveScan ==
    [][ ( /\ InLoop
          /\ ~p_tokens.null
          /\ At(p_js, p_parser.pos) \notin CasedChars )
        => LET e == FirstDelimiter(p_js, len, p_parser.pos)
           IN IF \E j \in p_parser.pos..(e - 1) :
                    At(p_js, j) < 32 \/ At(p_js, j) >= 127
              THEN /\ jpc' = "done"
                   /\ parse_ret' = JSMN_ERROR_INVAL
              ELSE /\ jpc' = "scan"
                   /\ p_tokens'.tok[p_parser.toknext + 1] =
                          [type |-> JSMN_PRIMITIVE, start |-> p_parser.pos,
                           end |-> e, size |-> 0]
                   /\ p_parser'.toknext = p_parser.toknext + 1
                   /\ p_parser'.pos = e ]_vars

\* C28 witness: ~{:~ - the primitive ~{ ends at the colon, the primitive ~ at
\* the end of the buffer.
C28_Witness ==
    /\ jpc = "done"
    /\ p_js = <<126, CHAR_BRACE_OPEN, CHAR_COLON, 126>>
    /\ parse_ret = 2
    /\ p_tokens.tok[1] = [type |-> JSMN_PRIMITIVE, start |-> 0, end |-> 2, size |-> 1]
    /\ p_tokens.tok[2] = [type |-> JSMN_PRIMITIVE, start |-> 3, end |-> 4, size |-> 0]

(* ------------------------------------------------------------------ *)
(* The application: json_process_init, json_process and the tick        *)
(* (src/jsonprocess.c, src/main.c, src/delay.c)                         *)
(* ------------------------------------------------------------------ *)

MAX_JSON_TOKENS == 15

\* The delay between two lines, in ticks.  The source sets 500
\* (src/jsonprocess.c:32); json_process depends on it only through
\* delay_elapsed, so the model runs a scaled delay.
TX_DELAY_MS == 2

\* g_systick_ms is a uint32_t and wraps at 2^32; the model's counter wraps at
\* twice the delay, which keeps the wrapped subtraction of delay_elapsed.
TickModulus == 2 * TX_DELAY_MS

JSON_ERR_PARSE_FAILED == 1
JSON_ERR_NO_OBJECT    == 2
JSON_SUCCESS          == 0

JSON_STATE_IDLE         == "JSON_STATE_IDLE"
JSON_STATE_TRANSMITTING == "JSON_STATE_TRANSMITTING"
JSON_STATE_WAITING      == "JSON_STATE_WAITING"
JSON_STATE_COMPLETE     == "JSON_STATE_COMPLETE"

\* {"user": "johndoe", "admin": false, "uid": 1000,\n  "groups": ["users", "wheel",
\* "audio", "video"]}
JSON_STRING ==
    <<123, 34, 117, 115, 101, 114, 34, 58, 32, 34, 106, 111, 104, 110, 100, 111, 101,
      34, 44, 32, 34, 97, 100, 109, 105, 110, 34, 58, 32, 102, 97, 108, 115, 101, 44,
      32, 34, 117, 105, 100, 34, 58, 32, 49, 48, 48, 48, 44, 10, 32, 32, 34, 103, 114,
      111, 117, 112, 115, 34, 58, 32, 91, 34, 117, 115, 101, 114, 115, 34, 44, 32, 34,
      119, 104, 101, 101, 108, 34, 44, 32, 34, 97, 117, 100, 105, 111, 34, 44, 32, 34,
      118, 105, 100, 101, 111, 34, 93, 125>>

\* "user"
KeyUser == <<117, 115, 101, 114>>

\* "admin"
KeyAdmin == <<97, 100, 109, 105, 110>>

\* "uid"
KeyUid == <<117, 105, 100>>

\* "groups"
KeyGroups == <<103, 114, 111, 117, 112, 115>>

\* "- User: "
FmtUser == <<45, 32, 85, 115, 101, 114, 58, 32>>

\* "- Admin: "
FmtAdmin == <<45, 32, 65, 100, 109, 105, 110, 58, 32>>

\* "- UID: "
FmtUid == <<45, 32, 85, 73, 68, 58, 32>>

\* "- Groups:"
FmtGroups == <<45, 32, 71, 114, 111, 117, 112, 115, 58>>

\* "  * "
FmtElement == <<32, 32, 42, 32>>

\* "Unexpected key: "
FmtUnexpected == <<85, 110, 101, 120, 112, 101, 99, 116, 101, 100, 32, 107, 101, 121, 58, 32>>

\* "Failed to parse JSON: "
FmtFailed == <<70, 97, 105, 108, 101, 100, 32, 116, 111, 32, 112, 97, 114, 115, 101, 32, 74, 83, 79,
  78, 58, 32>>

\* "Object expected"
FmtObject == <<79, 98, 106, 101, 99, 116, 32, 101, 120, 112, 101, 99, 116, 101, 100>>

\* g_tokens[i]: json_process_init hands g_tokens to jsmn_parse.
g_tokens(i) == p_tokens.tok[i + 1]

\* The characters "%.*s" prints for a token: JSON_STRING + start, at most
\* end - start of them.
TokenText(t) == SubSeq(p_js, t.start + 1, t.end)

\* The characters "%ld" prints for a number from -9 to 9.
Decimal(n) == IF n < 0 THEN <<45, 48 - n>> ELSE <<48 + n>>

\* sprintf(output_buffer, fmt "%.*s\r\n", ...)
Line(fmt, text) == fmt \o text \o <<CR, LF>>

\* jsoneq: 0 when the token is a String with the characters of s, else -1.
jsoneq(t, s) ==
    IF /\ t.type = JSMN_STRING
       /\ Len(s) = t.end - t.start
       /\ TokenText(t) = s
    THEN 0 ELSE -1

\* delay_start
delay_start == g_systick_ms

\* Faulty variant of delay_elapsed: the deadline is compared without the
\* wrapped subtraction.
delay_elapsed_NoWrap(start_tick, delay_ms) ==
    IF g_systick_ms >= start_tick + delay_ms THEN 1 ELSE 0

\* delay_elapsed: 1 when the wrapped difference of the ticks reaches delay_ms.
delay_elapsed(start_tick, delay_ms) ==
    IF (g_systick_ms - start_tick) % TickModulus >= delay_ms THEN 1 ELSE 0

\* SysTick_Handler: g_systick_ms++, whenever interrupt delivery is enabled.
SysTick_Handler ==
    /\ jp # "unused"
    /\ ~primask
    /\ g_systick_ms' = (g_systick_ms + 1) % TickModulus
    /\ IF jp = "timing"
       THEN /\ lapse < TickModulus - 1
            /\ lapse' = lapse + 1
       ELSE UNCHANGED lapse
    /\ UNCHANGED <<uartVars, jsmnVars, jp, g_json_state, g_current_token, g_parse_result,
                   g_delay_start, output_buffer, after, elem_j, array_delay, jret, sent,
                   since, wanted, answer>>

\* json_process_init: the driver and the tick are set up, the parser is
\* initialised and jsmn_parse is entered on JSON_STRING.
JsonInit ==
    /\ DriverIdle
    /\ doc = NoDoc
    /\ FreshParse(JSON_STRING, TokenArray(MAX_JSON_TOKENS), MAX_JSON_TOKENS)
    /\ jp = "init"
    /\ g_json_state = JSON_STATE_IDLE
    /\ g_current_token = 1
    /\ g_parse_result = 0
    /\ g_delay_start = 0
    /\ g_systick_ms = 0
    /\ output_buffer = <<>>
    /\ after = "none"
    /\ elem_j = 0
    /\ array_delay = 0
    /\ jret = 0
    /\ sent = <<>>
    /\ since = 0
    /\ wanted = 0
    /\ answer = -1
    /\ lapse = 0

\* jsmn_parse has returned: g_parse_result is set, the state machine reset, and
\* main enters its loop.
JsonInitReturn ==
    /\ jp = "init"
    /\ jpc = "done"
    /\ g_parse_result' = parse_ret
    /\ g_json_state' = JSON_STATE_IDLE
    /\ g_current_token' = 1
    /\ jp' = "loop"
    /\ UNCHANGED <<uartVars, jsmnVars, g_delay_start, g_systick_ms, output_buffer, after,
                   elem_j, array_delay, jret, sent>>
    /\ UNCHANGED delayVars

\* return v; from json_process: its locals are dead.
JsonReturn(v) ==
    /\ jp' = "loop"
    /\ jret' = v
    /\ output_buffer' = <<>>
    /\ after' = "none"
    /\ elem_j' = 0
    /\ array_delay' = 0

\* A byte read from memory that no longer belongs to output_buffer: any value,
\* the one the buffer held included.
Indeterminate == 256

\* output_buffer is an automatic array of json_process, and the driver keeps
\* its address in g_p_tx_buffer.  When the invocation that handed it over
\* returns, the frame is released: its memory may keep the characters (p) or
\* be reused - by the frames of the handlers, by the next calls of main's
\* loop - and then holds anything.
Released(p) ==
    IF p = NULL THEN {p}
    ELSE {p, Ptr([k \in 1..Len(p.str) |-> Indeterminate])}

\* return v; from an invocation that has called uart_transmit_buffer
JsonRelease(v) ==
    /\ JsonReturn(v)
    /\ g_p_tx_buffer' \in Released(g_p_tx_buffer)

\* A line has been formatted; the next statement is the call of
\* uart_transmit_buffer.
Prepare(line, branch) ==
    /\ output_buffer' = line
    /\ after' = branch
    /\ jp' = "call"
    /\ UNCHANGED <<jret, elem_j, array_delay>>

\* case JSON_STATE_IDLE
JsonIdle ==
    /\ jp = "loop"
    /\ g_json_state = JSON_STATE_IDLE
    /\ IF g_parse_result < 0
       THEN /\ IF g_tx_state = UART_STATE_IDLE
               THEN Prepare(FmtFailed \o Decimal(g_parse_result) \o <<CR, LF>>, "failed")
               ELSE JsonReturn(JSON_ERR_PARSE_FAILED)
            /\ UNCHANGED <<g_json_state, g_current_token>>
       ELSE IF g_parse_result < 1 \/ g_tokens(0).type # JSMN_OBJECT
       THEN /\ IF g_tx_state = UART_STATE_IDLE
               THEN Prepare(FmtObject \o <<CR, LF>>, "no_object")
               ELSE JsonReturn(JSON_ERR_NO_OBJECT)
            /\ UNCHANGED <<g_json_state, g_current_token>>
       ELSE /\ g_json_state' = JSON_STATE_TRANSMITTING
            /\ g_current_token' = 1
            /\ JsonReturn(0)
    /\ UNCHANGED <<uartVars, jsmnVars, g_parse_result, g_delay_start, g_systick_ms, sent>>
    /\ UNCHANGED delayVars

\* Faulty variant of TransmitterIdle: the transmitter is not looked at.
TransmitterIdle_Unchecked == TRUE

\* UART_STATE_IDLE == g_tx_state, as json_process reads it before a line
TransmitterIdle == g_tx_state = UART_STATE_IDLE

\* Faulty variant of PairStep: the cursor moves past the key only.
PairStep_KeyOnly(c) == c + 1

\* g_current_token += 2 after a key and its scalar value
PairStep(c) == c + 2

\* case JSON_STATE_TRANSMITTING, up to the call of uart_transmit_buffer
JsonTransmitting ==
    /\ jp = "loop"
    /\ g_json_state = JSON_STATE_TRANSMITTING
    /\ IF ~TransmitterIdle
       THEN /\ JsonReturn(0)
            /\ UNCHANGED g_json_state
       ELSE IF g_current_token >= g_parse_result
       THEN /\ g_json_state' = JSON_STATE_COMPLETE
            /\ JsonReturn(0)
       ELSE LET i == g_current_token
            IN /\ IF jsoneq(g_tokens(i), KeyUser) = 0
                  THEN Prepare(Line(FmtUser, TokenText(g_tokens(i + 1))), "pair")
                  ELSE IF jsoneq(g_tokens(i), KeyAdmin) = 0
                  THEN Prepare(Line(FmtAdmin, TokenText(g_tokens(i + 1))), "pair")
                  ELSE IF jsoneq(g_tokens(i), KeyUid) = 0
                  THEN Prepare(Line(FmtUid, TokenText(g_tokens(i + 1))), "pair")
                  ELSE IF jsoneq(g_tokens(i), KeyGroups) = 0
                  THEN Prepare(FmtGroups \o <<CR, LF>>, "groups")
                  ELSE Prepare(Line(FmtUnexpected, TokenText(g_tokens(i))), "unexpected")
               /\ UNCHANGED g_json_state
    /\ UNCHANGED <<uartVars, jsmnVars, g_current_token, g_parse_result, g_delay_start,
                   g_systick_ms, sent>>
    /\ UNCHANGED delayVars

\* (void)uart_transmit_buffer(output_buffer);  -- the call
JsonCall ==
    /\ jp = "call"
    /\ pc = "main"
    /\ callee' = "uart_transmit_buffer"
    /\ p_str' = Ptr(output_buffer)
    /\ pc' = "tx_entry"
    /\ jp' = "in_tx"
    /\ sent' = Append(sent, output_buffer)
    /\ UNCHANGED <<ret, cr1_tmp, primask, txVars, rxVars, cr1Vars, isrVars, histVars,
                   jsmnVars, g_json_state, g_current_token, g_parse_result, g_delay_start,
                   g_systick_ms, output_buffer, after, elem_j, array_delay, jret>>
    /\ UNCHANGED delayVars

\* The statements of uart_transmit_buffer, called from json_process.
JsonTxStep ==
    /\ jp = "in_tx"
    /\ pc # "main"
    /\ uart_transmit_buffer

\* uart_transmit_buffer has returned: the statements of the calling branch that
\* follow the call.
JsonAfterTx ==
    /\ jp = "in_tx"
    /\ pc = "main"
    /\ LET i == g_current_token
       IN CASE after = "failed" ->
                 /\ g_json_state' = JSON_STATE_COMPLETE
                 /\ JsonRelease(JSON_ERR_PARSE_FAILED)
                 /\ UNCHANGED <<g_current_token, g_delay_start>>
            [] after = "no_object" ->
                 /\ g_json_state' = JSON_STATE_COMPLETE
                 /\ JsonRelease(JSON_ERR_NO_OBJECT)
                 /\ UNCHANGED <<g_current_token, g_delay_start>>
            [] after = "pair" ->
                 /\ g_current_token' = PairStep(g_current_token)
                 /\ g_delay_start' = delay_start
                 /\ g_json_state' = JSON_STATE_WAITING
                 /\ JsonRelease(0)
            [] after = "unexpected" ->
                 /\ g_current_token' = g_current_token + 1
                 /\ g_delay_start' = delay_start
                 /\ g_json_state' = JSON_STATE_WAITING
                 /\ JsonRelease(0)
            [] after = "groups" ->
                 /\ g_delay_start' = delay_start
                 /\ g_json_state' = JSON_STATE_WAITING
                 /\ IF g_tokens(i + 1).type # JSMN_ARRAY
                    THEN /\ g_current_token' = g_current_token + 1
                         /\ JsonRelease(0)
                    ELSE /\ elem_j' = 0
                         /\ jp' = "for"
                         /\ UNCHANGED <<g_current_token, output_buffer, after,
                                        array_delay, jret, g_p_tx_buffer>>
            [] after = "element" ->
                 /\ array_delay' = delay_start
                 /\ jp' = "array_wait"
                 /\ UNCHANGED <<g_json_state, g_current_token, g_delay_start,
                                output_buffer, after, elem_j, jret,
                                g_p_tx_buffer>>
    /\ UNCHANGED <<mainVars, g_tx_state, g_tx_length, g_tx_index, rxVars, cr1Vars,
                   isrVars, histVars, jsmnVars, g_parse_result, g_systick_ms, sent>>
    /\ UNCHANGED delayVars

\* for (j = 0; j < g_tokens[i + 1].size; j++) -- the test; after the loop
\* g_current_token += g_tokens[i + 1].size + 2
JsonFor ==
    /\ jp = "for"
    /\ LET i == g_current_token
       IN IF elem_j < g_tokens(i + 1).size
          THEN /\ jp' = "spin"
               /\ UNCHANGED <<g_current_token, output_buffer, after, elem_j, array_delay,
                              jret, g_p_tx_buffer>>
          ELSE /\ g_current_token' = g_current_token + g_tokens(i + 1).size + 2
               /\ JsonRelease(0)
    /\ UNCHANGED <<mainVars, g_tx_state, g_tx_length, g_tx_index, rxVars, cr1Vars,
                   isrVars, histVars, jsmnVars, g_json_state, g_parse_result,
                   g_delay_start, g_systick_ms, sent>>
    /\ UNCHANGED delayVars

\* while (UART_STATE_IDLE != g_tx_state) {}  and the sprintf of the element
JsonSpin ==
    /\ jp = "spin"
    /\ LET i == g_current_token
       IN IF ~TransmitterIdle
          THEN UNCHANGED <<jp, output_buffer, after, elem_j, array_delay, jret>>
          ELSE Prepare(Line(FmtElement, TokenText(g_tokens(i + elem_j + 2))), "element")
    /\ UNCHANGED <<uartVars, jsmnVars, g_json_state, g_current_token, g_parse_result,
                   g_delay_start, g_systick_ms, sent>>
    /\ UNCHANGED delayVars

\* while (!delay_elapsed(array_delay, TX_DELAY_MS)) {}  -- the delay runs
JsonArrayWaitPending ==
    /\ jp = "array_wait"
    /\ delay_elapsed(array_delay, TX_DELAY_MS) = 0
    /\ UNCHANGED vars

\* ... the delay has elapsed: j++
JsonArrayWaitElapsed ==
    /\ jp = "array_wait"
    /\ delay_elapsed(array_delay, TX_DELAY_MS) = 1
    /\ elem_j' = elem_j + 1
    /\ jp' = "for"
    /\ UNCHANGED <<uartVars, jsmnVars, g_json_state, g_current_token, g_parse_result,
                   g_delay_start, g_systick_ms, output_buffer, after, array_delay, jret,
                   sent>>
    /\ UNCHANGED delayVars

\* case JSON_STATE_WAITING, the delay running: return 0
JsonWaitingPending ==
    /\ jp = "loop"
    /\ g_json_state = JSON_STATE_WAITING
    /\ delay_elapsed(g_delay_start, TX_DELAY_MS) = 0
    /\ JsonReturn(0)
    /\ UNCHANGED <<uartVars, jsmnVars, g_json_state, g_current_token, g_parse_result,
                   g_delay_start, g_systick_ms, sent>>
    /\ UNCHANGED delayVars

\* case JSON_STATE_WAITING, the delay elapsed
JsonWaitingElapsed ==
    /\ jp = "loop"
    /\ g_json_state = JSON_STATE_WAITING
    /\ delay_elapsed(g_delay_start, TX_DELAY_MS) = 1
    /\ g_json_state' = JSON_STATE_TRANSMITTING
    /\ JsonReturn(0)
    /\ UNCHANGED <<uartVars, jsmnVars, g_current_token, g_parse_result, g_delay_start,
                   g_systick_ms, sent>>
    /\ UNCHANGED delayVars

\* case JSON_STATE_COMPLETE: return JSON_SUCCESS
JsonComplete ==
    /\ jp = "loop"
    /\ g_json_state = JSON_STATE_COMPLETE
    /\ JsonReturn(JSON_SUCCESS)
    /\ UNCHANGED <<uartVars, jsmnVars, g_json_state, g_current_token, g_parse_result,
                   g_delay_start, g_systick_ms, sent>>
    /\ UNCHANGED delayVars

\* One call of json_process from main's loop.  g_json_state only takes the
\* four values above, so the default case of the switch is never entered.
json_process ==
    \/ JsonIdle
    \/ JsonTransmitting
    \/ JsonCall
    \/ JsonTxStep
    \/ JsonAfterTx
    \/ JsonFor
    \/ JsonSpin
    \/ JsonArrayWaitPending
    \/ JsonArrayWaitElapsed
    \/ JsonWaitingPending
    \/ JsonWaitingElapsed
    \/ JsonComplete

\* main: json_process_init, then json_process for ever, with the transmit
\* interrupt and the tick.  The application never arms the receiver.
NextJson ==
    \/ jsmn_parse
    \/ JsonInitReturn
    \/ json_process
    \/ USART2_IRQHandler
    \/ HwTxEmpty
    \/ SysTick_Handler

SpecJson == JsonInit /\ [][NextJson]_vars

\* Scheduling.  The main line executes its next statement; the handlers are
\* taken when pending; main's loop polls far more often than the tick counts,
\* so an elapsed delay is seen.
FairSpecJson ==
    /\ SpecJson
    /\ WF_vars(jsmn_parse \/ JsonInitReturn \/ json_process)
    /\ SF_vars(JsonWaitingElapsed)
    /\ SF_vars(JsonArrayWaitElapsed)
    /\ SF_vars(USART2_IRQHandler)
    /\ WF_vars(HwTxEmpty)
    /\ SF_vars(SysTick_Handler)

\* C29: json_process never calls uart_transmit_buffer while a transmission is
\* in flight: at each of its calls, and until the callee has tested the
\* state, g_tx_state is IDLE, and every call returns 0, never -2 -- the calls
\* for the array elements of the "groups" branch included.
C29_CallsWhenIdle ==
    /\ (jp = "call" \/ (jp = "in_tx" /\ pc \in {"tx_entry", "tx_crit"}))
          => g_tx_state = UART_STATE_IDLE
    /\ (jp = "in_tx" /\ pc = "main") => ret = 0

\* The call for the last element of "groups" has returned 0.
C29_Witness ==
    /\ jp = "in_tx"
    /\ pc = "main"
    /\ after = "element"
    /\ elem_j = 3
    /\ ret = 0
    /\ Len(sent) = 8
ExpectedLines ==
    << <<45, 32, 85, 115, 101, 114, 58, 32, 106, 111, 104, 110, 100, 111, 101, 13, 10>>,
       <<45, 32, 65, 100, 109, 105, 110, 58, 32, 102, 97, 108, 115, 101, 13, 10>>,
       <<45, 32, 85, 73, 68, 58, 32, 49, 48, 48, 48, 13, 10>>,
       <<45, 32, 71, 114, 111, 117, 112, 115, 58, 13, 10>>,
       <<32, 32, 42, 32, 117, 115, 101, 114, 115, 13, 10>>,
       <<32, 32, 42, 32, 119, 104, 101, 101, 108, 13, 10>>,
       <<32, 32, 42, 32, 97, 117, 100, 105, 111, 13, 10>>,
       <<32, 32, 42, 32, 118, 105, 100, 101, 111, 13, 10>> >>

\* The number of lines handed over while the cursor is at token c.
LinesAt(c) ==
    CASE c = 1 -> {0, 1}
      [] c = 3 -> {1, 2}
      [] c = 5 -> {2, 3}
      [] c = 7 -> 3..8
      [] OTHER -> {8}

\* C30: the cursor moves by 2 after a key with a scalar value and by size + 2
\* after an array with its elements, so on the embedded JSON string it visits
\* 1, 3, 5, 7 and then equals the token count; the lines for user, admin, uid,
\* the groups header and the four group elements are handed to
\* uart_transmit_buffer once each, in that order; the state machine then
\* reaches JSON_STATE_COMPLETE and stays there.
C30_CursorAndLines ==
    /\ [](/\ g_current_token \in {1, 3, 5, 7, 13}
          /\ (jp # "init" /\ g_current_token = 13) => g_current_token = g_parse_result
          /\ sent = SubSeq(ExpectedLines, 1, Len(sent))
          /\ Len(sent) \in LinesAt(g_current_token))
    /\ [][g_json_state = JSON_STATE_COMPLETE => g_json_state' = JSON_STATE_COMPLETE]_vars
    /\ <>[](/\ g_json_state = JSON_STATE_COMPLETE
            /\ g_current_token = g_parse_result
            /\ sent = ExpectedLines)

\* json_process returns from the COMPLETE case with all eight lines handed
\* over and the cursor at the token count.
C30_Witness ==
    /\ jp = "loop"
    /\ g_json_state = JSON_STATE_COMPLETE
    /\ g_current_token = 13
    /\ g_parse_result = 13
    /\ sent = ExpectedLines
    /\ g_tx_state = UART_STATE_IDLE

(* ------------------------------------------------------------------ *)
(* A caller of delay.c: delay_start, then delay_elapsed polled while    *)
(* the tick counts                                                      *)
(* ------------------------------------------------------------------ *)

\* The tick counter holds any value when the caller starts; the caller waits
\* for any duration a uint32_t of the model's width holds.
InitDelay ==
    /\ DriverIdle
    /\ ParserUnused
    /\ jp = "delay_new"
    /\ g_json_state = JSON_STATE_IDLE
    /\ g_current_token = 1
    /\ g_parse_result = 0
    /\ g_delay_start = 0
    /\ g_systick_ms \in 0..(TickModulus - 1)
    /\ output_buffer = <<>>
    /\ after = "none"
    /\ elem_j = 0
    /\ array_delay = 0
    /\ jret = 0
    /\ sent = <<>>
    /\ since = 0
    /\ wanted \in 0..(TickModulus - 1)
    /\ answer = -1
    /\ lapse = 0

\* timer = delay_start();
DelayStart ==
    /\ jp = "delay_new"
    /\ since' = delay_start
    /\ jp' = "timing"
    /\ UNCHANGED <<uartVars, jsmnVars, g_json_state, g_current_token, g_parse_result,
                   g_delay_start, g_systick_ms, output_buffer, after, elem_j, array_delay,
                   jret, sent, wanted, answer, lapse>>

\* delay_elapsed(timer, wanted)
DelayPoll ==
    /\ jp = "timing"
    /\ answer' = delay_elapsed(since, wanted)
    /\ UNCHANGED <<uartVars, jsmnVars, jp, g_json_state, g_current_token, g_parse_result,
                   g_delay_start, g_systick_ms, output_buffer, after, elem_j, array_delay,
                   jret, sent, since, wanted, lapse>>

NextDelay == DelayStart \/ DelayPoll \/ SysTick_Handler

SpecDelay == InitDelay /\ [][NextDelay]_vars

\* C31: delay_elapsed handles the wrap of the tick counter: with start tick s,
\* current tick c and duration d it returns 1 exactly when (c - s) modulo the
\* width of the counter is at least d, which is exactly when the true number
\* of ticks since s (below one full turn of the counter) is at least d, also
\* when the counter has wrapped past zero between s and c.
C31_ElapsedWraps ==
    [][(jp = "timing" /\ g_systick_ms' = g_systick_ms)
          => /\ answer' = (IF (g_systick_ms - since) % TickModulus >= wanted THEN 1 ELSE 0)
             /\ answer' = (IF lapse >= wanted THEN 1 ELSE 0)]_vars

\* The counter has wrapped past zero since the start, and the poll answered 1
\* at the tick the duration was reached.
C31_Witness ==
    /\ jp = "timing"
    /\ g_systick_ms < since
    /\ wanted > 0
    /\ lapse = wanted
    /\ answer = 1

(* ------------------------------------------------------------------ *)
(* Properties of the handler and of the driver as a whole               *)
(* ------------------------------------------------------------------ *)

\* C32: the branches of the handler are gated on the state.  An invocation with
\* g_tx_state IDLE writes nothing to the transmit data register and leaves the
\* transmit context and TXEIE as they were, also when TXE is set; an invocation
\* with g_rx_state IDLE or ERROR stores nothing in the destination buffer and
\* leaves g_rx_state, g_rx_index and g_error as they were, also when RXNE or an
\* error flag is set.
C32_BranchesGated ==
    [][USART2_IRQHandler =>
          /\ (g_tx_state = UART_STATE_IDLE) =>
                 /\ tdr_log' = tdr_log
                 /\ TXE' = TXE
                 /\ UNCHANGED <<g_tx_state, g_p_tx_buffer, g_tx_length, g_tx_index, TXEIE>>
          /\ (g_rx_state \in {UART_STATE_IDLE, UART_STATE_ERROR}) =>
                 UNCHANGED <<g_rx_buffer, g_rx_state, g_rx_index, g_error>>]_vars

\* The handler is about to run with both branches gated off and both flags
\* raised: the transmitter is IDLE with TXE set, the receiver is in ERROR with
\* a byte waiting and an error flag set.
C32_Witness ==
    /\ ~primask
    /\ IrqPending
    /\ g_tx_state = UART_STATE_IDLE
    /\ TXE
    /\ g_rx_state = UART_STATE_ERROR
    /\ RXNE
    /\ errflags # {}

\* C33: uart_error_reset called while g_rx_state is IDLE or RX_BUSY is a no-op:
\* the call returns with g_rx_state, g_error, g_rx_index, the destination
\* buffer and RXNEIE as they were, so a reception in progress is not restarted.
C33_ResetOutsideErrorIsNoOp ==
    [][(ErCall /\ g_rx_state \in {UART_STATE_IDLE, UART_STATE_RX_BUSY})
          => /\ pc' = "main"
             /\ UNCHANGED <<g_rx_state, g_error, g_rx_index, g_rx_buffer, RXNEIE, fed>>]_vars

\* uart_error_reset has returned during a reception: the receiver is still
\* RX_BUSY with the byte it had stored and its interrupt source enabled.
C33_Witness ==
    /\ callee = "uart_error_reset"
    /\ pc = "main"
    /\ g_rx_state = UART_STATE_RX_BUSY
    /\ g_rx_index = 1
    /\ fed = <<88>>
    /\ g_rx_buffer[0] = 88
    /\ RXNEIE

\* C34: an enabled interrupt source has a state able to service it: TXEIE is
\* set only while g_tx_state is TX_BUSY, and RXNEIE is set only while
\* g_rx_state is RX_BUSY.
C34_EnabledSourceIsServed ==
    /\ TXEIE => g_tx_state = UART_STATE_TX_BUSY
    /\ RXNEIE => g_rx_state = UART_STATE_RX_BUSY

\* C35: in every state the main line observes outside a driver call,
\* g_rx_state is ERROR if and only if g_error is not UART_ERROR_NONE, in every
\* interleaving of uart_receive_buffer, uart_error_reset and the handler.
C35_ErrorIffErrorKind ==
    pc = "main" => (g_rx_state = UART_STATE_ERROR <=> g_error # UART_ERROR_NONE)

\* C36: memory safety of the receive path.  In every reachable state
\* g_rx_index <= RX_BUFFER_SIZE_BYTES - 1; every data byte is stored at an
\* offset <= RX_BUFFER_SIZE_BYTES - 2 and every terminator at an offset
\* <= RX_BUFFER_SIZE_BYTES - 1, whatever the sequence of receive calls,
\* received bytes, overflows, errors and resets.
C36_RxMemorySafe ==
    /\ [](g_rx_index \in 0..(RX_BUFFER_SIZE_BYTES - 1))
    /\ [][/\ DOMAIN g_rx_buffer' = 0..(RX_BUFFER_SIZE_BYTES - 1)
          /\ (g_rx_index' = g_rx_index + 1) =>
                 /\ g_rx_index <= RX_BUFFER_SIZE_BYTES - 2
                 /\ g_rx_buffer'[g_rx_index] \in RxBytes
                 /\ IsLineEnd(g_rx_buffer'[g_rx_index]) =>
                        /\ g_rx_index + 1 <= RX_BUFFER_SIZE_BYTES - 1
                        /\ g_rx_buffer'[g_rx_index + 1] = NUL
          /\ \A i \in DOMAIN g_rx_buffer :
                 g_rx_buffer'[i] # g_rx_buffer[i] =>
                    /\ g_rx_index' = g_rx_index + 1
                    /\ i \in {g_rx_index, g_rx_index + 1}]_vars

\* A line that fills the buffer: its line ending is stored at the last data
\* offset and the terminator in the last byte of the buffer.
C36_Witness ==
    /\ g_rx_state = UART_STATE_IDLE
    /\ g_rx_index = RX_BUFFER_SIZE_BYTES - 1
    /\ g_rx_buffer[RX_BUFFER_SIZE_BYTES - 2] = LF
    /\ g_rx_buffer[RX_BUFFER_SIZE_BYTES - 1] = NUL
    /\ Len(fed) = RX_BUFFER_SIZE_BYTES - 1

(* ------------------------------------------------------------------ *)
(* Properties of the token array                                        *)
(* ------------------------------------------------------------------ *)

\* C37: after a successful jsmn_parse of a buffer of length len every produced
\* token has 0 <= start <= end <= len, no end is left at -1, and every
\* Primitive token is non-empty (start < end).
C37_TokenBounds ==
    ( /\ jpc = "done"
      /\ ~p_tokens.null
      /\ parse_ret >= 0 )
    => /\ parse_ret = p_parser.toknext
       /\ \A i \in 1..parse_ret :
             LET t == p_tokens.tok[i]
             IN /\ 0 <= t.start
                /\ t.start <= t.end
                /\ t.end <= len
                /\ (t.type = JSMN_PRIMITIVE) => t.start < t.end

\* ""1 was parsed: an empty String token (start = end) and a Primitive that
\* ends at the end of the buffer.
C37_Witness ==
    /\ jpc = "done"
    /\ p_js = <<CHAR_QUOTE, CHAR_QUOTE, 49>>
    /\ parse_ret = 2
    /\ p_tokens.tok[1].type = JSMN_STRING
    /\ p_tokens.tok[1].start = 1
    /\ p_tokens.tok[1].end = 1
    /\ p_tokens.tok[2].type = JSMN_PRIMITIVE
    /\ p_tokens.tok[2].start = 2
    /\ p_tokens.tok[2].end = len

\* The span [start, end) of token b lies inside the span of token a.
Inside(a, b) == a.start < b.start /\ b.end <= a.end

\* C38: after a successful jsmn_parse the tokens are in document order and nest
\* properly: the starts increase strictly with the token index, any two spans
\* [start, end) are disjoint or one contains the other, and the tokens inside
\* a container are the ones at the indices immediately after it (only an
\* Object or an Array contains another token).
C38_OrderAndNesting ==
    ( /\ jpc = "done"
      /\ ~p_tokens.null
      /\ parse_ret >= 0 )
    => LET t == p_tokens.tok
       IN /\ \A i, j \in 1..parse_ret :
                i < j => /\ t[i].start < t[j].start
                         /\ \/ t[i].end <= t[j].start
                            \/ Inside(t[i], t[j])
          /\ \A i, j, k \in 1..parse_ret :
                (i < j /\ j < k /\ Inside(t[i], t[k])) => Inside(t[i], t[j])
          /\ \A i, j \in 1..parse_ret :
                Inside(t[i], t[j]) => t[i].type \in {JSMN_OBJECT, JSMN_ARRAY}

\* [[1]] was parsed: the inner array sits inside the outer one and the
\* primitive inside the inner one, at the indices after their containers.
C38_Witness ==
    /\ jpc = "done"
    /\ p_js = <<CHAR_BRACKET_OPEN, CHAR_BRACKET_OPEN, 49, CHAR_BRACKET_CLOSE,
                CHAR_BRACKET_CLOSE>>
    /\ parse_ret = 3
    /\ Inside(p_tokens.tok[1], p_tokens.tok[2])
    /\ Inside(p_tokens.tok[2], p_tokens.tok[3])
    /\ p_tokens.tok[1].end = 5

\* C40: memory safety of the token array.  At every step of jsmn_parse with a
\* token array of capacity c, on any input, toknext <= c and toksuper is -1 or
\* an index below toknext, so that every slot the tokenizer reads or writes -
\* the parent whose size it increments, the slots of the backward scans at a
\* closer and at a comma, the slots of the scan after the loop - has an index
\* in [0, toknext).
C40_TokenArraySafe ==
    (~p_tokens.null /\ call # "none")
    => /\ Len(p_tokens.tok) = num_tokens
       /\ p_parser.toknext \in 0..num_tokens
       /\ p_parser.toksuper \in -1..(p_parser.toknext - 1)

\* [[ with capacity 1: the array is full, its only token is the parent, and
\* the second opener was refused with JSMN_ERROR_NOMEM.
C40_Witness ==
    /\ jpc = "done"
    /\ ~p_tokens.null
    /\ num_tokens = 1
    /\ p_js = <<CHAR_BRACKET_OPEN, CHAR_BRACKET_OPEN>>
    /\ p_parser.toknext = 1
    /\ p_parser.toksuper = 0
    /\ parse_ret = JSMN_ERROR_NOMEM

(* ------------------------------------------------------------------ *)
(* Properties of the application's transmit buffer                      *)
(* ------------------------------------------------------------------ *)

\* C39: the buffer json_process hands to uart_transmit_buffer stays live and
\* unmodified for the whole transmission: while g_tx_state is TX_BUSY and
\* g_p_tx_buffer points to it, json_process has not returned to main and
\* output_buffer still holds the characters that were handed over.
C39_BufferLive ==
    (g_tx_state = UART_STATE_TX_BUSY /\ g_p_tx_buffer # NULL /\ jp \notin {"unused", "init"})
    => /\ jp # "loop"
       /\ output_buffer = g_p_tx_buffer.str

====
